---- MODULE Spec2Model ----
(***************************************************************************)
(* cchooked: one invocation of the hook engine, from argument parsing to   *)
(* process exit.  Text is a sequence of tokens, so that template           *)
(* placeholders, regex matching and substitution are computed, not         *)
(* assumed.  Option<T> is a sequence of length 0 (None) or 1 (Some).       *)
(***************************************************************************)
EXTENDS Integers, Sequences, FiniteSets, TLC

(* ---------------------------------------------------------------------- *)
(* Bounds                                                                  *)
(* ---------------------------------------------------------------------- *)

\* Largest number of rules in one configuration file.
MaxRules == 2

(* ---------------------------------------------------------------------- *)
(* Option and text helpers                                                 *)
(* ---------------------------------------------------------------------- *)

None == <<>>

Some(x) == <<x>>

IsSome(o) == Len(o) = 1

IsNone(o) == Len(o) = 0

\* Option<String>::unwrap_or_default / as_deref().unwrap_or("")
UnwrapOrEmpty(o) == IF IsSome(o) THEN o[1] ELSE <<>>

\* Does the token sequence lit occur in s starting at position pos?
StartsAt(s, pos, lit) ==
    /\ pos + Len(lit) - 1 <= Len(s)
    /\ SubSeq(s, pos, pos + Len(lit) - 1) = lit

(* ---------------------------------------------------------------------- *)
(* Regular expressions (regex_lite): the fragment ^?(lit1|lit2|...)        *)
(* A pattern text is [ok, anchor, alts]; ok = FALSE is a text the regex    *)
(* engine refuses to compile.                                              *)
(* ---------------------------------------------------------------------- *)

Pat(anchor, alts) == [ok |-> TRUE, anchor |-> anchor, alts |-> alts]

P_Bash == Pat(FALSE, << <<"Bash">> >>)

P_EditWrite == Pat(FALSE, << <<"Edit">>, <<"Write">> >>)

P_Any == Pat(FALSE, << <<>> >>)

P_npm == Pat(TRUE, << <<"npm">> >>)

P_bun == Pat(TRUE, << <<"bun">> >>)

P_env == Pat(FALSE, << <<"/.env">> >>)

P_main == Pat(TRUE, << <<"main">> >>)

P_dev == Pat(TRUE, << <<"dev">> >>)

P_invalid == [ok |-> FALSE, anchor |-> FALSE, alts |-> << <<"[invalid(regex">> >>]

\* Positions at which a match of re may start in s.
StartPositions(re, s) == IF re.anchor THEN {1} ELSE 1..(Len(s) + 1)

\* Regex::is_match: unanchored search unless the pattern starts with ^.
is_match(re, s) ==
    \E i \in 1..Len(re.alts) :
        \E pos \in StartPositions(re, s) : StartsAt(s, pos, re.alts[i])

(* ---------------------------------------------------------------------- *)
(* Errors                                                                  *)
(* ---------------------------------------------------------------------- *)

Err(kind, rule_name, value) == [kind |-> kind, rule_name |-> rule_name, value |-> value]

ErrorKinds ==
    {"ConfigNotFound", "ConfigParseError", "InputParseError", "RegexError",
     "InvalidEventType", "InvalidActionType", "LogFileMissing", "IoError"}

\* CchookedError::exit_code
exit_code(e) == IF e.kind = "ConfigNotFound" THEN 0 ELSE 2

\* CchookedError::is_warning
is_warning(e) == e.kind = "ConfigNotFound"

\* Result<T>
Ok(v) == [ok |-> TRUE, val |-> <<v>>, err |-> <<>>]

Fail(e) == [ok |-> FALSE, val |-> <<>>, err |-> <<e>>]

(* ---------------------------------------------------------------------- *)
(* Configuration file contents (config.rs)                                 *)
(* ---------------------------------------------------------------------- *)

\* StringOrVec
Single(p) == [kind |-> "Single", v |-> <<p>>]

Multiple(ps) == [kind |-> "Multiple", v |-> ps]

\* StringOrVec::to_vec
to_vec(sv) == IF sv.kind = "Single" THEN <<sv.v[1]>> ELSE sv.v

\* WhenConfig
When(command, file_path, branch) ==
    [command |-> command, file_path |-> file_path, branch |-> branch]

\* TransformConfig: command is Option<[String; 2]>, pattern then replacement
TransformConfig(command) == [command |-> command]

\* RuleConfig with serde's defaults: priority 0, on_error "ignore",
\* log_format "text", every Option absent.
DefaultRule ==
    [event |-> "PreToolUse", matcher |-> P_Bash, action |-> "block",
     priority |-> 0, message |-> None, when |-> None, transform |-> None,
     command |-> None, on_error |-> "ignore", log_file |-> None,
     log_format |-> "text", working_dir |-> None]

\* The rule tables a configuration file may hold, by rule name.
RuleNames ==
    {"no_npm", "high", "no_edit", "npm_to_bun", "xf_bare", "run_fail",
     "run_ignore", "audit", "audit_nofile", "bad_event", "bad_action",
     "bad_regex", "main_only", "env_npm"}

\* Run rules written without a `command`, one per failure policy
BareRunNames == {"run_bare", "run_bare_ignore"}

RulePool ==
    [n \in RuleNames \cup BareRunNames |->
        CASE n = "no_npm" ->
               [DefaultRule EXCEPT !.priority = 1,
                    !.message = Some(<<"use", "bun", "${tool_name}">>),
                    !.when = Some(When(Some(Single(P_npm)), None, None))]
          [] n = "high" ->
               [DefaultRule EXCEPT !.priority = 10,
                    !.message = Some(<<"high">>),
                    !.when = Some(When(Some(Single(P_Any)), None, None))]
          [] n = "no_edit" ->
               [DefaultRule EXCEPT !.matcher = P_EditWrite,
                    !.when = Some(When(Some(Multiple(<<>>)), None,
                                       Some(Multiple(<<>>))))]
          [] n = "npm_to_bun" ->
               [DefaultRule EXCEPT !.action = "transform", !.priority = 1,
                    !.when = Some(When(Some(Single(P_npm)), None, None)),
                    !.transform = Some(TransformConfig(Some(<<P_npm, <<"bun">> >>)))]
          [] n = "xf_bare" ->
               [DefaultRule EXCEPT !.action = "transform", !.priority = 5,
                    !.matcher = P_EditWrite,
                    !.when = Some(When(None, None, Some(Single(P_dev)))),
                    !.transform = Some(TransformConfig(None))]
          [] n = "run_fail" ->
               [DefaultRule EXCEPT !.action = "run", !.priority = 2,
                    !.command = Some(<<"lint", "${file_path}">>),
                    !.on_error = "fail",
                    !.when = Some(When(None, Some(Single(P_Any)), None))]
          [] n = "run_ignore" ->
               [DefaultRule EXCEPT !.action = "run", !.priority = 2,
                    !.event = "PostToolUse",
                    !.command = Some(<<"fmt">>), !.on_error = "Fail",
                    !.working_dir = Some(<<"sub">>)]
          [] n = "audit" ->
               [DefaultRule EXCEPT !.action = "log", !.priority = 3,
                    !.matcher = P_Any, !.event = "PostToolUse",
                    !.log_file = Some(<<"~", "/log">>), !.log_format = "json"]
          [] n = "audit_nofile" ->
               [DefaultRule EXCEPT !.action = "log"]
          [] n = "run_bare" ->
               [DefaultRule EXCEPT !.action = "run", !.priority = 4,
                    !.matcher = P_Any, !.on_error = "fail",
                    !.working_dir = Some(<<"sub">>)]
          [] n = "run_bare_ignore" ->
               [DefaultRule EXCEPT !.action = "run", !.priority = 4,
                    !.matcher = P_Any, !.event = "PostToolUse",
                    !.working_dir = Some(<<"/abs">>)]
          [] n = "bad_event" ->
               [DefaultRule EXCEPT !.event = "InvalidEvent"]
          [] n = "bad_action" ->
               [DefaultRule EXCEPT !.action = "invalid_action"]
          [] n = "bad_regex" ->
               [DefaultRule EXCEPT !.event = "PostToolUse",
                    !.matcher = P_invalid]
          [] n = "main_only" ->
               [DefaultRule EXCEPT !.priority = 1, !.matcher = P_Any,
                    !.message = Some(<<"on", "${branch}">>),
                    !.when = Some(When(None, None, Some(Single(P_main))))]
          [] OTHER ->
               [DefaultRule EXCEPT !.priority = 2, !.matcher = P_Any,
                    !.message = Some(<<"env">>),
                    !.when = Some(When(Some(Multiple(<<P_npm, P_bun>>)),
                                       Some(Single(P_env)), None))]]

\* Config: the rules mapping (a HashMap, so a set of names with no order).
Configs == {c \in SUBSET RuleNames : Cardinality(c) <= MaxRules}

\* The orders in which iterating a HashMap with these keys may yield them.
RECURSIVE Orders(_)
Orders(names) ==
    IF names = {} THEN {<<>>}
    ELSE UNION {{<<n>> \o rest : rest \in Orders(names \ {n})} : n \in names}

(* ---------------------------------------------------------------------- *)
(* Rule compilation (rule.rs)                                              *)
(* ---------------------------------------------------------------------- *)

EventTypes == {"PreToolUse", "PostToolUse"}

\* EventType::from_str
EventType_from_str(s) ==
    IF s \in EventTypes THEN Ok(s)
    ELSE Fail(Err("InvalidEventType", "", P_Any))

ActionTypes == {"block", "transform", "run", "log"}

\* ActionType::from_str
ActionType_from_str(s) ==
    IF s \in ActionTypes THEN Ok(s)
    ELSE Fail(Err("InvalidActionType", "", P_Any))

\* LogFormat::from_str
LogFormat_from_str(s) == IF s = "json" THEN "Json" ELSE "Text"

\* Mutant: the failure policy read without regard to letter case
OnErrorBehavior_from_str_any_case(s) ==
    IF s \in {"fail", "Fail", "FAIL"} THEN "Fail" ELSE "Ignore"

\* OnErrorBehavior::from_str
OnErrorBehavior_from_str(s) == IF s = "fail" THEN "Fail" ELSE "Ignore"

\* compile_regex_with_context
compile_regex_with_context(pattern, rule_name) ==
    IF pattern.ok THEN Ok(pattern)
    ELSE Fail(Err("RegexError", rule_name, pattern))

\* The pattern texts of one when-category, in order (empty when the
\* when table or the category is absent).
CategoryTexts(when, cat) ==
    IF IsNone(when) THEN <<>>
    ELSE IF IsNone(when[1][cat]) THEN <<>>
    ELSE to_vec(when[1][cat][1])

\* The texts compile_rule hands to the regex engine, in the order it does:
\* matcher, command, file_path and branch patterns, transform pattern.
PatternsAfterMatcher(config) ==
    CategoryTexts(config.when, "command")
        \o CategoryTexts(config.when, "file_path")
        \o CategoryTexts(config.when, "branch")
        \o (IF IsSome(config.transform) /\ IsSome(config.transform[1].command)
            THEN <<config.transform[1].command[1][1]>> ELSE <<>>)

\* The first text of a sequence that fails to compile, if any.
FirstInvalid(pats) ==
    IF \E i \in 1..Len(pats) : ~pats[i].ok
    THEN Some(pats[CHOOSE i \in 1..Len(pats) :
                    ~pats[i].ok /\ \A j \in 1..(i - 1) : pats[j].ok])
    ELSE None

\* TransformRule built from the transform table
CompiledTransform(config) ==
    IF IsSome(config.transform) /\ IsSome(config.transform[1].command)
    THEN Some([command_pattern |-> Some(config.transform[1].command[1][1]),
               command_replacement |-> Some(config.transform[1].command[1][2])])
    ELSE None

\* Mutant: a log rule is accepted whether or not it names a log file
log_file_missing_never(action, config) == FALSE

\* The last check of compile_rule: action == ActionType::Log &&
\* config.log_file.is_none()
log_file_missing(action, config) ==
    action = "log" /\ IsNone(config.log_file)

\* compile_rule
compile_rule(name, config) ==
    LET event == EventType_from_str(config.event)
        matcher == compile_regex_with_context(config.matcher, name)
        action == ActionType_from_str(config.action)
        bad == FirstInvalid(PatternsAfterMatcher(config))
    IN  IF ~event.ok THEN event
        ELSE IF ~matcher.ok THEN matcher
        ELSE IF ~action.ok THEN action
        ELSE IF IsSome(bad) THEN compile_regex_with_context(bad[1], name)
        ELSE IF log_file_missing(action.val[1], config)
        THEN Fail(Err("LogFileMissing", name, P_Any))
        ELSE Ok([name |-> name,
                 event |-> event.val[1],
                 matcher |-> matcher.val[1],
                 action |-> action.val[1],
                 priority |-> config.priority,
                 message |-> config.message,
                 when |-> [command_patterns |-> CategoryTexts(config.when, "command"),
                           file_path_patterns |-> CategoryTexts(config.when, "file_path"),
                           branch_patterns |-> CategoryTexts(config.when, "branch")],
                 transform |-> CompiledTransform(config),
                 run_command |-> config.command,
                 on_error |-> OnErrorBehavior_from_str(config.on_error),
                 log_file |-> config.log_file,
                 log_format |-> LogFormat_from_str(config.log_format)])

\* Mutant: the rules left in the order the mapping yielded them
sort_by_priority_skipped(rules) == rules

\* Mutant: the comparison the other way round, a.priority.cmp(&b.priority)
RECURSIVE sort_by_priority_ascending(_)
sort_by_priority_ascending(rules) ==
    IF Len(rules) <= 1 THEN rules
    ELSE LET n == Len(rules)
             front == sort_by_priority_ascending(SubSeq(rules, 1, n - 1))
             r == rules[n]
             k == Cardinality({i \in 1..Len(front) : front[i].priority <= r.priority})
         IN  SubSeq(front, 1, k) \o <<r>> \o SubSeq(front, k + 1, Len(front))

\* Mutant: a sort that puts a rule ahead of the rules of equal priority
\* met before it
RECURSIVE sort_by_priority_unstable(_)
sort_by_priority_unstable(rules) ==
    IF Len(rules) <= 1 THEN rules
    ELSE LET n == Len(rules)
             front == sort_by_priority_unstable(SubSeq(rules, 1, n - 1))
             r == rules[n]
             k == Cardinality({i \in 1..Len(front) : front[i].priority > r.priority})
         IN  SubSeq(front, 1, k) \o <<r>> \o SubSeq(front, k + 1, Len(front))

\* Vec::sort_by(|a, b| b.priority.cmp(&a.priority)): a stable sort, so an
\* insertion that goes after every element of priority >= its own.
RECURSIVE sort_by_priority(_)
sort_by_priority(rules) ==
    IF Len(rules) <= 1 THEN rules
    ELSE LET n == Len(rules)
             front == sort_by_priority(SubSeq(rules, 1, n - 1))
             r == rules[n]
             k == Cardinality({i \in 1..Len(front) : front[i].priority >= r.priority})
         IN  SubSeq(front, 1, k) \o <<r>> \o SubSeq(front, k + 1, Len(front))

\* Mutant: a rule that fails to compile is left out of the rule set
compile_rules_skipping_invalid(order) ==
    LET results == [i \in 1..Len(order) |-> compile_rule(order[i], RulePool[order[i]])]
        good == SelectSeq(results, LAMBDA r : r.ok)
    IN  Ok(sort_by_priority([i \in 1..Len(good) |-> good[i].val[1]]))

\* compile_rules, for the order in which the mapping yields its entries
compile_rules(order) ==
    LET results == [i \in 1..Len(order) |-> compile_rule(order[i], RulePool[order[i]])]
    IN  IF \E i \in 1..Len(order) : ~results[i].ok
        THEN results[CHOOSE i \in 1..Len(order) :
                        ~results[i].ok /\ \A j \in 1..(i - 1) : results[j].ok]
        ELSE Ok(sort_by_priority([i \in 1..Len(order) |-> results[i].val[1]]))

(* ---------------------------------------------------------------------- *)
(* Invocation facts and process environment                                *)
(* ---------------------------------------------------------------------- *)

ToolNames == {<<"Bash">>, <<"Edit">>}

Commands ==
    {None, Some(<<"npm", "install">>), Some(<<"bun", "install">>),
     Some(<<"${branch}">>)}

FilePaths == {None, Some(<<"/p", "/.env">>), Some(<<"f">>)}

\* HookInput values a well-formed input document deserialises to
HookInputs ==
    [tool_name : ToolNames,
     tool_input : [command : Commands, file_path : FilePaths]]

\* What the process environment answers when a Context is built:
\* CCHOOKED_BRANCH, the outcome of `git rev-parse --abbrev-ref HEAD`
\* ("missing": the binary cannot be started), CLAUDE_PROJECT_DIR, the
\* current directory.
Environments ==
    [CCHOOKED_BRANCH : {None, Some(<<"main">>)},
     git : {"missing", "nonzero", "ok"},
     git_stdout : {<<"dev", "\n">>},
     CLAUDE_PROJECT_DIR : {None, Some(<<"/w">>)},
     current_dir : {<<"/cwd">>}]

\* The environments an invocation is run in: the override is met with git
\* present and with git missing, a set CLAUDE_PROJECT_DIR with git present.
EnvPool ==
    {e \in Environments :
        /\ IsSome(e.CCHOOKED_BRANCH) => e.git \in {"ok", "missing"}
        /\ IsSome(e.CLAUDE_PROJECT_DIR) => e.git = "ok"}

(* ---------------------------------------------------------------------- *)
(* Context (context.rs)                                                    *)
(* ---------------------------------------------------------------------- *)

Whitespace == {"\n", " "}

\* str::trim
RECURSIVE trim(_)
trim(s) ==
    IF s = <<>> THEN s
    ELSE IF s[1] \in Whitespace THEN trim(Tail(s))
    ELSE IF s[Len(s)] \in Whitespace THEN trim(SubSeq(s, 1, Len(s) - 1))
    ELSE s

\* Path::parent, as text: the path without its last component
path_parent(p) == IF p = <<>> THEN <<>> ELSE SubSeq(p, 1, Len(p) - 1)

\* Mutant: get_current_branch without the CCHOOKED_BRANCH override
get_current_branch_ignoring_override(env) ==
    IF env.git = "ok"
    THEN [branch |-> Some(trim(env.git_stdout)), git_started |-> TRUE]
    ELSE [branch |-> None, git_started |-> TRUE]

\* get_current_branch: the branch if any, and whether git was started
get_current_branch(env) ==
    IF IsSome(env.CCHOOKED_BRANCH)
    THEN [branch |-> env.CCHOOKED_BRANCH, git_started |-> FALSE]
    ELSE IF env.git = "missing"
    THEN [branch |-> None, git_started |-> TRUE]
    ELSE IF env.git = "ok"
    THEN [branch |-> Some(trim(env.git_stdout)), git_started |-> TRUE]
    ELSE [branch |-> None, git_started |-> TRUE]

\* Context::from_input
from_input(input, env) ==
    LET file_path == UnwrapOrEmpty(input.tool_input.file_path)
        file_dir == IF file_path = <<>> THEN <<>> ELSE path_parent(file_path)
        workspace_root ==
            IF IsSome(env.CLAUDE_PROJECT_DIR) /\ env.CLAUDE_PROJECT_DIR[1] # <<>>
            THEN env.CLAUDE_PROJECT_DIR[1]
            ELSE env.current_dir
    IN  [command |-> UnwrapOrEmpty(input.tool_input.command),
         file_path |-> file_path,
         file_dir |-> file_dir,
         tool_name |-> input.tool_name,
         branch |-> UnwrapOrEmpty(get_current_branch(env).branch),
         workspace_root |-> workspace_root]

\* str::replace(from, to) for a one-token placeholder
RECURSIVE replace(_, _, _)
replace(s, from, to) ==
    IF s = <<>> THEN <<>>
    ELSE (IF s[1] = from THEN to ELSE <<s[1]>>) \o replace(Tail(s), from, to)

\* Context::expand: six replacements, one after the other
expand(ctx, template) ==
    LET t1 == replace(template, "${command}", ctx.command)
        t2 == replace(t1, "${file_path}", ctx.file_path)
        t3 == replace(t2, "${file_dir}", ctx.file_dir)
        t4 == replace(t3, "${tool_name}", ctx.tool_name)
        t5 == replace(t4, "${branch}", ctx.branch)
    IN  replace(t5, "${workspace_root}", ctx.workspace_root)

(* ---------------------------------------------------------------------- *)
(* Rule evaluation (rule.rs)                                               *)
(* ---------------------------------------------------------------------- *)

\* Mutant: Iterator::all in place of Iterator::any
AllMatch(patterns, text) == \A i \in 1..Len(patterns) : is_match(patterns[i], text)

\* Iterator::any over a pattern list
AnyMatch(patterns, text) == \E i \in 1..Len(patterns) : is_match(patterns[i], text)

\* matches_command
matches_command(patterns, command) ==
    IF patterns = <<>> THEN TRUE ELSE AnyMatch(patterns, command)

\* matches_file_path
matches_file_path(patterns, file_path) ==
    IF patterns = <<>> THEN TRUE ELSE AnyMatch(patterns, file_path)

\* matches_branch
matches_branch(patterns, current_branch) ==
    IF patterns = <<>> THEN TRUE ELSE AnyMatch(patterns, current_branch)

\* MatchResult built from the matching rule
\* Mutant: a MatchResult built without the rule's message
MatchResult_without_message(rule) ==
    [rule_name |-> rule.name,
     action |-> rule.action,
     message |-> None,
     transform |-> rule.transform,
     run_command |-> rule.run_command,
     on_error |-> rule.on_error,
     log_file |-> rule.log_file,
     log_format |-> rule.log_format]

\* The MatchResult evaluate_rules builds from the matching rule
MatchResult(rule) ==
    [rule_name |-> rule.name,
     action |-> rule.action,
     message |-> rule.message,
     transform |-> rule.transform,
     run_command |-> rule.run_command,
     on_error |-> rule.on_error,
     log_file |-> rule.log_file,
     log_format |-> rule.log_format]

\* evaluate_rules, the event check: continue unless the events agree
skips_event(rule, event) == rule.event # event

\* evaluate_rules, the tool-name check
skips_matcher(rule, input) == ~is_match(rule.matcher, input.tool_name)

\* Mutant: the command category tested without the is_empty guards
skips_command_unguarded(rule, input) ==
    ~\E i \in 1..Len(rule.when.command_patterns) :
        is_match(rule.when.command_patterns[i],
                 UnwrapOrEmpty(input.tool_input.command))

\* evaluate_rules, the command check: only a non-empty category is tested,
\* an absent command as the empty text
skips_command(rule, input) ==
    /\ rule.when.command_patterns # <<>>
    /\ ~matches_command(rule.when.command_patterns,
                        UnwrapOrEmpty(input.tool_input.command))

\* evaluate_rules, the file-path check
skips_file_path(rule, input) ==
    /\ rule.when.file_path_patterns # <<>>
    /\ ~matches_file_path(rule.when.file_path_patterns,
                          UnwrapOrEmpty(input.tool_input.file_path))

\* evaluate_rules, the branch check against the built Context
skips_branch(rule, context) ==
    /\ rule.when.branch_patterns # <<>>
    /\ ~matches_branch(rule.when.branch_patterns, context.branch)

\* Mutant: the Context built for every rule with a branch filter
needs_context_every_time(rule, context) == rule.when.branch_patterns # <<>>

\* evaluate_rules: a rule with a branch filter builds the Context unless
\* an earlier rule of this pass already did (context.is_none())
needs_context(rule, context) ==
    rule.when.branch_patterns # <<>> /\ IsNone(context)

\* The loop of evaluate_rules from rule i on.  context is the memoised
\* Option<Context>; builds counts the calls of Context::from_input and
\* git the git processes started so far.
RECURSIVE evaluate_from(_, _, _, _, _, _, _, _)
evaluate_from(rules, i, event, input, env, context, builds, git) ==
    IF i > Len(rules)
    THEN [result |-> None, builds |-> builds, git |-> git]
    ELSE
      LET rule == rules[i]
          next(c, b, g) == evaluate_from(rules, i + 1, event, input, env, c, b, g)
          started == IF get_current_branch(env).git_started THEN 1 ELSE 0
      IN
        IF skips_event(rule, event) THEN next(context, builds, git)
        ELSE IF skips_matcher(rule, input) THEN next(context, builds, git)
        ELSE IF skips_command(rule, input) THEN next(context, builds, git)
        ELSE IF skips_file_path(rule, input) THEN next(context, builds, git)
        ELSE
          LET needs == needs_context(rule, context)
              context1 == IF needs THEN Some(from_input(input, env)) ELSE context
              builds1 == IF needs THEN builds + 1 ELSE builds
              git1 == IF needs THEN git + started ELSE git
          IN
            IF rule.when.branch_patterns # <<>> /\ skips_branch(rule, context1[1])
            THEN next(context1, builds1, git1)
            ELSE
              [result |->
                  Some([match_result |-> MatchResult(rule),
                        context |-> IF IsSome(context1) THEN context1[1]
                                    ELSE from_input(input, env)]),
               builds |-> IF IsSome(context1) THEN builds1 ELSE builds1 + 1,
               git |-> IF IsSome(context1) THEN git1 ELSE git1 + started]

\* Mutant: the rule list scanned from its end
evaluate_rules_reversed(rules, event, input, env) ==
    evaluate_from([i \in 1..Len(rules) |-> rules[Len(rules) + 1 - i]],
                  1, event, input, env, None, 0, 0)

\* Mutant: the Context built before the scan, whatever the rules need
evaluate_rules_eager(rules, event, input, env) ==
    evaluate_from(rules, 1, event, input, env, Some(from_input(input, env)), 1,
                  IF get_current_branch(env).git_started THEN 1 ELSE 0)

\* evaluate_rules
evaluate_rules(rules, event, input, env) ==
    evaluate_from(rules, 1, event, input, env, None, 0, 0)

(* ---------------------------------------------------------------------- *)
(* Output (output.rs)                                                      *)
(* ---------------------------------------------------------------------- *)

\* Mutant: the message placed on the primary channel
block_output_on_stdout(message) ==
    [exit_code |-> 2, stdout |-> message, stderr |-> None]

\* Mutant: a block reported with the exit status of a setup error
block_output_exit_one(message) ==
    [exit_code |-> 1, stdout |-> None, stderr |-> message]

\* block_output
block_output(message) == [exit_code |-> 2, stdout |-> None, stderr |-> message]

\* Mutant: the no-match outcome made blocking
no_match_output_blocking == [exit_code |-> 2, stdout |-> None, stderr |-> None]

\* no_match_output
no_match_output == [exit_code |-> 0, stdout |-> None, stderr |-> None]

\* Mutant: the rewritten command reported with the blocking exit status
transform_output_blocking(event_name, updated_command) ==
    [exit_code |-> 2,
     stdout |-> Some([hookSpecificOutput |->
                        [hookEventName |-> event_name,
                         permissionDecision |-> "allow",
                         updatedInput |-> [command |-> updated_command]]]),
     stderr |-> None]

\* transform_output: the serialised TransformOutput, kept structured
transform_output(event_name, updated_command) ==
    [exit_code |-> 0,
     stdout |-> Some([hookSpecificOutput |->
                        [hookEventName |-> event_name,
                         permissionDecision |-> "allow",
                         updatedInput |-> [command |-> updated_command]]]),
     stderr |-> None]

\* One line on the error channel: who wrote it, what kind, its text
Line(tag, kind, text) == [tag |-> tag, kind |-> kind, text |-> text]

\* emit: what it adds to the primary channel
emit_stdout(out) == IF IsSome(out.stdout) THEN <<out.stdout[1]>> ELSE <<>>

\* emit: what it adds to the error channel
emit_stderr(out) ==
    IF IsSome(out.stderr) THEN <<Line("emit", "", out.stderr[1])>> ELSE <<>>

(* ---------------------------------------------------------------------- *)
(* Actions (action.rs)                                                     *)
(* ---------------------------------------------------------------------- *)

\* Path::is_absolute
is_absolute(p) ==
    p # <<>> /\ p[1] \in {"/", "/p", "/w", "/cwd", "/abs", "/home", "/sub",
                          "/log", "/.env"}

\* PathBuf::join of a relative path
path_join(base, rel) ==
    IF base = <<>> THEN rel
    ELSE IF base[Len(base)] = "/" THEN base \o rel
    ELSE base \o <<"/">> \o rel

\* The working-directory template the decision carries
working_dir_of(match_result) == RulePool[match_result.rule_name].working_dir

\* Mutant: a relative path joined onto file_dir before the workspace root
resolve_working_dir_file_dir_first(working_dir, context) ==
    LET fallback == IF context.file_dir = <<>> THEN None ELSE Some(context.file_dir)
    IN  IF IsNone(working_dir) THEN fallback
        ELSE LET expanded == expand(context, working_dir[1])
             IN  IF expanded = <<>> THEN fallback
                 ELSE IF is_absolute(expanded) THEN Some(expanded)
                 ELSE Some(path_join(IF context.file_dir = <<>>
                                     THEN context.workspace_root
                                     ELSE context.file_dir, expanded))

\* resolve_working_dir
resolve_working_dir(working_dir, context) ==
    LET fallback == IF context.file_dir = <<>> THEN None ELSE Some(context.file_dir)
    IN  IF IsNone(working_dir) THEN fallback
        ELSE LET expanded == expand(context, working_dir[1])
             IN  IF expanded = <<>> THEN fallback
                 ELSE IF is_absolute(expanded) THEN Some(expanded)
                 ELSE Some(path_join(IF context.workspace_root = <<>>
                                     THEN context.file_dir
                                     ELSE context.workspace_root, expanded))

\* Regex::replace: the leftmost match is replaced, once
regex_replace(re, s, rep) ==
    LET hits == {pos \in StartPositions(re, s) :
                    \E i \in 1..Len(re.alts) : StartsAt(s, pos, re.alts[i])}
    IN  IF hits = {} THEN s
        ELSE LET pos == CHOOSE q \in hits : \A r \in hits : q <= r
                 alt == CHOOSE i \in 1..Len(re.alts) :
                           /\ StartsAt(s, pos, re.alts[i])
                           /\ \A j \in 1..(i - 1) : ~StartsAt(s, pos, re.alts[j])
             IN  SubSeq(s, 1, pos - 1) \o rep
                    \o SubSeq(s, pos + Len(re.alts[alt]), Len(s))

\* execute_action, Block arm
execute_block(match_result, context) ==
    block_output(IF IsSome(match_result.message)
                 THEN Some(expand(context, match_result.message[1]))
                 ELSE None)

\* Mutant: a Transform arm that answers an incomplete rewrite spec with an
\* allow payload carrying the command as it is
execute_transform_always_answering(match_result, context, event) ==
    IF /\ IsSome(match_result.transform)
       /\ IsSome(match_result.transform[1].command_pattern)
       /\ IsSome(match_result.transform[1].command_replacement)
    THEN transform_output(event,
            regex_replace(match_result.transform[1].command_pattern[1],
                          context.command,
                          match_result.transform[1].command_replacement[1]))
    ELSE transform_output(event, context.command)

\* execute_action, Transform arm
execute_transform(match_result, context, event) ==
    IF /\ IsSome(match_result.transform)
       /\ IsSome(match_result.transform[1].command_pattern)
       /\ IsSome(match_result.transform[1].command_replacement)
    THEN transform_output(event,
            regex_replace(match_result.transform[1].command_pattern[1],
                          context.command,
                          match_result.transform[1].command_replacement[1]))
    ELSE no_match_output

\* What the file system and the shell answer to a Run action
RunWorlds == [dir_exists : BOOLEAN, child : {"success", "failure", "spawn_error"}]

\* Mutant: a failed run step blocks whatever the failure policy
apply_on_error_always_block(on_error, text) == block_output(Some(text))

\* match match_result.on_error { Ignore => no_match_output(),
\* Fail => block_output(Some(text)) }
apply_on_error(on_error, text) ==
    IF on_error = "Ignore" THEN no_match_output
    ELSE block_output(Some(text))

\* Mutant: the Run arm without the existence check
dir_missing_never(working_dir, world) == FALSE

\* if let Some(ref dir) = working_dir && !Path::new(dir).exists()
dir_missing(working_dir, world) == IsSome(working_dir) /\ ~world.dir_exists

\* The steps of the Run arm once a command template is present: the
\* template is expanded and the working directory resolved; Path::exists is
\* asked only about a resolved directory; sh is started unless that
\* directory is missing
run_steps(working_dir, world) ==
    <<"expand", "resolve_working_dir">>
        \o (IF IsSome(working_dir) THEN <<"exists">> ELSE <<>>)
        \o (IF dir_missing(working_dir, world) THEN <<>> ELSE <<"spawn">>)

\* Mutant: a Run arm that starts the command a second time after a failure
execute_run_retrying(match_result, context, world) ==
    IF IsNone(match_result.run_command)
    THEN [out |-> no_match_output, spawned |-> 0, steps |-> <<>>]
    ELSE IF world.child = "success"
    THEN [out |-> no_match_output, spawned |-> 1,
          steps |-> <<"expand", "resolve_working_dir", "spawn">>]
    ELSE [out |-> apply_on_error(match_result.on_error,
                                 <<"Command failed: ", "child-stderr">>),
          spawned |-> 2,
          steps |-> <<"expand", "resolve_working_dir", "spawn", "spawn">>]

\* Mutant: a Run arm that resolves and checks the working directory before
\* it looks for the command template
execute_run_checking_first(match_result, context, world) ==
    LET working_dir == resolve_working_dir(working_dir_of(match_result), context)
        on_error(text) == apply_on_error(match_result.on_error, text)
        checked == <<"resolve_working_dir">>
                      \o (IF IsSome(working_dir) THEN <<"exists">> ELSE <<>>)
    IN  IF dir_missing(working_dir, world)
        THEN [out |-> on_error(<<"Working directory does not exist: ">>
                                  \o working_dir[1]),
              spawned |-> 0, steps |-> checked]
        ELSE IF IsNone(match_result.run_command)
        THEN [out |-> no_match_output, spawned |-> 0, steps |-> checked]
        ELSE IF world.child = "success"
        THEN [out |-> no_match_output, spawned |-> 1,
              steps |-> checked \o <<"expand", "spawn">>]
        ELSE [out |-> on_error(<<"Command failed: ", "child-stderr">>),
              spawned |-> IF world.child = "failure" THEN 1 ELSE 0,
              steps |-> checked \o <<"expand", "spawn">>]

\* execute_action, Run arm: the outcome, the number of processes started
\* and the steps taken
execute_run(match_result, context, world) ==
    IF IsNone(match_result.run_command)
    THEN [out |-> no_match_output, spawned |-> 0, steps |-> <<>>]
    ELSE
      LET working_dir == resolve_working_dir(working_dir_of(match_result), context)
          on_error(text) == apply_on_error(match_result.on_error, text)
          steps == run_steps(working_dir, world)
      IN  IF dir_missing(working_dir, world)
          THEN [out |-> on_error(<<"Working directory does not exist: ">>
                                    \o working_dir[1]),
                spawned |-> 0, steps |-> steps]
          ELSE IF world.child = "success"
          THEN [out |-> no_match_output, spawned |-> 1, steps |-> steps]
          ELSE IF world.child = "failure"
          THEN [out |-> on_error(<<"Command failed: ", "child-stderr">>),
                spawned |-> 1, steps |-> steps]
          ELSE [out |-> on_error(<<"Failed to run command: ", "spawn-error">>),
                spawned |-> 0, steps |-> steps]

\* What the file system answers to a Log action, and whether HOME is set
LogWorlds ==
    {w \in [home : {None, Some(<<"/home">>)},
            mkdir_ok : BOOLEAN, open_ok : BOOLEAN, write_ok : BOOLEAN] :
        /\ ~w.mkdir_ok => ~w.open_ok
        /\ ~w.open_ok => w.write_ok}

\* Mutant: the log target opened with truncate in place of append
append_line_truncating(file, line) == Some(<<line \o <<"\n">> >>)

\* OpenOptions::new().create(true).append(true).open(path) followed by
\* writeln!(file, "{log_entry}"): an absent file (None) is created, the
\* entry and a newline go after what the file holds
append_line(file, line) ==
    IF IsNone(file) THEN Some(<<line \o <<"\n">> >>)
    ELSE Some(file[1] \o <<line \o <<"\n">> >>)

\* The log entry of the Log arm
log_entry(match_result, context, event) ==
    IF match_result.log_format = "Text"
    THEN <<"[", "timestamp", "] ", event, " ">> \o context.tool_name \o <<": ">>
            \o (IF context.command = <<>> THEN context.file_path
                ELSE context.command)
    ELSE <<"{timestamp,event:", event, ",tool:">> \o context.tool_name
            \o <<",command:">> \o context.command
            \o <<",file_path:">> \o context.file_path \o <<"}">>

\* The path the Log arm opens: a leading ~ becomes HOME when HOME is set
expanded_log_path(file_path, home) ==
    IF file_path # <<>> /\ file_path[1] = "~" /\ IsSome(home)
    THEN home[1] \o Tail(file_path)
    ELSE file_path

\* Mutant: a Log arm that blocks the call when the entry was not written
execute_log_failing(match_result, context, event, world) ==
    LET path == expanded_log_path(UnwrapOrEmpty(match_result.log_file), world.home)
        written == world.mkdir_ok /\ world.open_ok /\ world.write_ok
    IN  [out |-> IF written THEN no_match_output
                 ELSE block_output(Some(<<"log failed">>)),
         warnings |-> <<>>,
         appended |-> IF written
                      THEN <<[path |-> path,
                              line |-> log_entry(match_result, context, event)]>>
                      ELSE <<>>]

\* execute_action, Log arm: the outcome, the warnings printed and the
\* lines appended to the log target
execute_log(match_result, context, event, world) ==
    IF IsNone(match_result.log_file)
    THEN [out |-> no_match_output, warnings |-> <<>>, appended |-> <<>>]
    ELSE
      LET path == expanded_log_path(match_result.log_file[1], world.home)
          w1 == IF world.mkdir_ok THEN <<>>
                ELSE <<Line("Warning", "create_log_directory", path)>>
          w2 == IF ~world.open_ok THEN <<Line("Warning", "open_log_file", path)>>
                ELSE IF ~world.write_ok
                THEN <<Line("Warning", "write_log_entry", path)>>
                ELSE <<>>
      IN  [out |-> no_match_output,
           warnings |-> w1 \o w2,
           appended |-> IF world.open_ok /\ world.write_ok
                        THEN <<[path |-> path,
                                line |-> log_entry(match_result, context, event)]>>
                        ELSE <<>>]

(* ---------------------------------------------------------------------- *)
(* Command line and input documents (main.rs)                              *)
(* ---------------------------------------------------------------------- *)

\* The command lines of the documented usage: cchooked <EVENT> [OPTIONS]
ArgVectors ==
    {<<>>, <<"PreToolUse">>, <<"PostToolUse">>, <<"InvalidEvent">>,
     <<"--help">>, <<"PreToolUse", "-v">>,
     <<"InvalidEvent", "--config", "alt.toml">>,
     <<"PostToolUse", "--config">>}

\* str::starts_with('-') on the argument texts in use
starts_with_dash(a) ==
    a \in {"--help", "-h", "--version", "-v", "--config", "--verbose"}

\* The loop of parse_args from argument i on; exit1 is the early
\* std::process::exit(1) for --config without a value.
RECURSIVE parse_from(_, _, _)
parse_from(argv, i, acc) ==
    IF i > Len(argv) \/ acc.exit1 THEN acc
    ELSE LET a == argv[i]
         IN  IF a \in {"--help", "-h"}
             THEN parse_from(argv, i + 1, [acc EXCEPT !.show_help = TRUE])
             ELSE IF a \in {"--version", "-v"}
             THEN parse_from(argv, i + 1, [acc EXCEPT !.show_version = TRUE])
             ELSE IF a = "--config"
             THEN IF i + 1 <= Len(argv)
                  THEN parse_from(argv, i + 2,
                                  [acc EXCEPT !.config_path = Some(argv[i + 1])])
                  ELSE [acc EXCEPT !.exit1 = TRUE]
             ELSE IF ~starts_with_dash(a) /\ IsNone(acc.event)
             THEN parse_from(argv, i + 1, [acc EXCEPT !.event = Some(a)])
             ELSE IF starts_with_dash(a)
             THEN parse_from(argv, i + 1, [acc EXCEPT !.unknown = @ \o <<a>>])
             ELSE parse_from(argv, i + 1, acc)

NoArgs ==
    [event |-> None, config_path |-> None, show_help |-> FALSE,
     show_version |-> FALSE, unknown |-> <<>>, exit1 |-> FALSE]

\* parse_args
parse_args(argv) == parse_from(argv, 1, NoArgs)

\* What reading and deserialising standard input may give (read_input)
StdinWorlds ==
    {Fail(Err("IoError", "", P_Any)), Fail(Err("InputParseError", "", P_Any))}
        \cup {Ok(h) : h \in
                {i \in HookInputs :
                    \/ /\ i.tool_name = <<"Bash">>
                       /\ IsSome(i.tool_input.command)
                       /\ i.tool_input.file_path # Some(<<"f">>)
                    \/ /\ i.tool_name = <<"Edit">>
                       /\ IsNone(i.tool_input.command)}}

\* What the configuration path may hold (load_config): no file, an
\* unreadable file, a file that is not TOML, or a rules mapping.
ConfigWorlds ==
    {Fail(Err("ConfigNotFound", "", P_Any)), Fail(Err("IoError", "", P_Any)),
     Fail(Err("ConfigParseError", "", P_Any))}
        \cup {Ok(c) : c \in Configs}

(* ---------------------------------------------------------------------- *)
(* One invocation                                                          *)
(* ---------------------------------------------------------------------- *)

VARIABLES
    pc,          \* the step of run()/main() that comes next
    args,        \* Args
    event,       \* Option<EventType>
    input,       \* Option<HookInput>
    config,      \* Option<Config>: the rule names of the mapping
    order,       \* the order in which compile_rules met the mapping's entries
    rules,       \* Option<Vec<Rule>>
    env,         \* Option: the environment evaluate_rules ran in
    decision,    \* Option<(MatchResult, Context)>
    result,      \* Option<Result<Output>>: what run() returned
    exitStatus,  \* Option<i32>: the process exit code
    stdoutCh,    \* what was written to the primary channel
    stderrCh,    \* the lines written to the error channel
    ctxBuilds,   \* calls of Context::from_input
    gitStarted,  \* git processes started
    runSpawned,  \* sh processes started
    logFile,     \* lines appended to log targets
    ioWorld,     \* Option: what the system answered to the Run or Log arm
    wd,          \* Option: a call of resolve_working_dir and its answer
    ex,          \* Option: a call of Context::expand and its answer
    fs,          \* Option: the log targets on disk over several invocations
    runSteps     \* the steps the Run arm took, in order

vars ==
    <<pc, args, event, input, config, order, rules, env, decision, result,
      exitStatus, stdoutCh, stderrCh, ctxBuilds, gitStarted, runSpawned, logFile,
      ioWorld, wd, ex, fs, runSteps>>

Init ==
    /\ pc = "parse_args"
    /\ args = NoArgs
    /\ event = None
    /\ input = None
    /\ config = None
    /\ order = <<>>
    /\ rules = None
    /\ env = None
    /\ decision = None
    /\ result = None
    /\ exitStatus = None
    /\ stdoutCh = <<>>
    /\ stderrCh = <<>>
    /\ ctxBuilds = 0
    /\ gitStarted = 0
    /\ runSpawned = 0
    /\ logFile = <<>>
    /\ ioWorld = None
    /\ wd = None
    /\ ex = None
    /\ fs = None
    /\ runSteps = <<>>

\* run() returns r to main
Return(r) == result' = Some(r) /\ pc' = "main"

\* run(): parse_args, the help and version exits, the missing event
ParseArgs ==
    /\ pc = "parse_args"
    /\ \E argv \in ArgVectors :
         LET a == parse_args(argv)
             warned == [i \in 1..Len(a.unknown) |->
                           Line("Warning", "unknown_argument", <<a.unknown[i]>>)]
         IN  /\ args' = a
             /\ IF a.exit1
                THEN /\ stderrCh' = stderrCh \o warned
                                      \o <<Line("Error", "config_requires_value", <<>>)>>
                     /\ exitStatus' = Some(1)
                     /\ pc' = "done"
                     /\ result' = result
                ELSE IF a.show_help
                THEN /\ stderrCh' = stderrCh \o warned \o <<Line("help", "", <<>>)>>
                     /\ Return(Ok(no_match_output))
                     /\ exitStatus' = exitStatus
                ELSE IF a.show_version
                THEN /\ stderrCh' = stderrCh \o warned \o <<Line("version", "", <<>>)>>
                     /\ Return(Ok(no_match_output))
                     /\ exitStatus' = exitStatus
                ELSE IF IsNone(a.event)
                THEN /\ stderrCh' = stderrCh \o warned
                     /\ Return(Fail(Err("InputParseError", "", P_Any)))
                     /\ exitStatus' = exitStatus
                ELSE /\ stderrCh' = stderrCh \o warned
                     /\ pc' = "parse_event"
                     /\ result' = result
                     /\ exitStatus' = exitStatus
    /\ UNCHANGED <<event, input, config, order, rules, env, decision, stdoutCh,
                   ctxBuilds, gitStarted, runSpawned, logFile,
                   ioWorld, wd, ex, fs, runSteps>>

\* run(): EventType::from_str(&event_str)?
ParseEvent ==
    /\ pc = "parse_event"
    /\ LET e == EventType_from_str(args.event[1])
       IN  IF e.ok
           THEN event' = Some(e.val[1]) /\ pc' = "read_input" /\ result' = result
           ELSE event' = event /\ Return(Fail(e.err[1]))
    /\ UNCHANGED <<args, input, config, order, rules, env, decision, exitStatus,
                   stdoutCh, stderrCh, ctxBuilds, gitStarted, runSpawned, logFile,
                   ioWorld, wd, ex, fs, runSteps>>

\* run(): read_input()?
ReadInput ==
    /\ pc = "read_input"
    /\ \E r \in StdinWorlds :
         IF r.ok
         THEN input' = Some(r.val[1]) /\ pc' = "load_config" /\ result' = result
         ELSE input' = input /\ Return(Fail(r.err[1]))
    /\ UNCHANGED <<args, event, config, order, rules, env, decision, exitStatus,
                   stdoutCh, stderrCh, ctxBuilds, gitStarted, runSpawned, logFile,
                   ioWorld, wd, ex, fs, runSteps>>

\* load_config, for what the file system holds at the path
load_config(path, world) == world

\* run(): config::load_config(args.config_path.as_deref())?
LoadConfig ==
    /\ pc = "load_config"
    /\ \E w \in ConfigWorlds :
         LET r == load_config(args.config_path, w)
         IN  IF r.ok
             THEN config' = Some(r.val[1]) /\ pc' = "compile_rules" /\ result' = result
             ELSE config' = config /\ Return(Fail(r.err[1]))
    /\ UNCHANGED <<args, event, input, order, rules, env, decision, exitStatus,
                   stdoutCh, stderrCh, ctxBuilds, gitStarted, runSpawned, logFile,
                   ioWorld, wd, ex, fs, runSteps>>

\* run(): rule::compile_rules(&config)?
CompileRules ==
    /\ pc = "compile_rules"
    /\ \E o \in Orders(config[1]) :
         LET r == compile_rules(o)
         IN  /\ order' = o
             /\ IF r.ok
                THEN rules' = Some(r.val[1]) /\ pc' = "evaluate_rules"
                     /\ result' = result
                ELSE rules' = rules /\ Return(Fail(r.err[1]))
    /\ UNCHANGED <<args, event, input, config, env, decision, exitStatus,
                   stdoutCh, stderrCh, ctxBuilds, gitStarted, runSpawned, logFile,
                   ioWorld, wd, ex, fs, runSteps>>

\* Mutant: a pattern error met at match time, after the rules were scanned
EvaluateRules_failing_at_match_time ==
    /\ pc = "evaluate_rules"
    /\ \E e \in EnvPool :
         LET r == evaluate_rules(rules[1], event[1], input[1], e)
         IN  /\ env' = Some(e)
             /\ decision' = r.result
             /\ ctxBuilds' = ctxBuilds + r.builds
             /\ gitStarted' = gitStarted + r.git
             /\ IF IsSome(r.result)
                THEN pc' = "execute_action" /\ result' = result
                ELSE Return(Fail(Err("RegexError", "", P_Any)))
    /\ UNCHANGED <<args, event, input, config, order, rules, exitStatus,
                   stdoutCh, stderrCh, runSpawned, logFile,
                   ioWorld, wd, ex, fs, runSteps>>

\* run(): rule::evaluate_rules(&rules, &event, &input)
EvaluateRules ==
    /\ pc = "evaluate_rules"
    /\ \E e \in EnvPool :
         LET r == evaluate_rules(rules[1], event[1], input[1], e)
         IN  /\ env' = Some(e)
             /\ decision' = r.result
             /\ ctxBuilds' = ctxBuilds + r.builds
             /\ gitStarted' = gitStarted + r.git
             /\ IF IsSome(r.result)
                THEN pc' = "execute_action" /\ result' = result
                ELSE Return(Ok(no_match_output))
    /\ UNCHANGED <<args, event, input, config, order, rules, exitStatus,
                   stdoutCh, stderrCh, runSpawned, logFile,
                   ioWorld, wd, ex, fs, runSteps>>

\* run(): action::execute_action(&match_result, &context, &event)
ExecuteAction ==
    /\ pc = "execute_action"
    /\ LET m == decision[1].match_result
           c == decision[1].context
       IN  \/ /\ m.action = "block"
              /\ Return(Ok(execute_block(m, c)))
              /\ UNCHANGED <<stderrCh, runSpawned, logFile, ioWorld, runSteps>>
           \/ /\ m.action = "transform"
              /\ Return(Ok(execute_transform(m, c, event[1])))
              /\ UNCHANGED <<stderrCh, runSpawned, logFile, ioWorld, runSteps>>
           \/ /\ m.action = "run"
              /\ \E w \in RunWorlds :
                   LET r == execute_run(m, c, w)
                   IN  /\ Return(Ok(r.out))
                       /\ runSpawned' = runSpawned + r.spawned
                       /\ runSteps' = runSteps \o r.steps
                       /\ ioWorld' = Some(w)
              /\ UNCHANGED <<stderrCh, logFile>>
           \/ /\ m.action = "log"
              /\ \E w \in LogWorlds :
                   LET r == execute_log(m, c, event[1], w)
                   IN  /\ Return(Ok(r.out))
                       /\ stderrCh' = stderrCh \o r.warnings
                       /\ logFile' = logFile \o r.appended
                       /\ ioWorld' = Some(w)
              /\ UNCHANGED <<runSpawned, runSteps>>
    /\ UNCHANGED <<args, event, input, config, order, rules, env, decision,
                   exitStatus, stdoutCh, ctxBuilds, gitStarted, wd, ex, fs>>

\* Mutant: main() exiting with CchookedError::exit_code
error_exit_status_documented(e) == exit_code(e)

\* Mutant: main() without the ConfigNotFound branch
error_exit_status_hard(e) == 1

\* The exit code main() ends the process with on an error
error_exit_status(e) == IF e.kind = "ConfigNotFound" THEN 0 ELSE 1

\* main(): emit the outcome, or report the error, and exit
Main ==
    /\ pc = "main"
    /\ LET r == result[1]
       IN  IF r.ok
           THEN /\ stdoutCh' = stdoutCh \o emit_stdout(r.val[1])
                /\ stderrCh' = stderrCh \o emit_stderr(r.val[1])
                /\ exitStatus' = Some(r.val[1].exit_code)
           ELSE IF r.err[1].kind = "ConfigNotFound"
           THEN /\ stdoutCh' = stdoutCh \o emit_stdout(no_match_output)
                /\ stderrCh' = stderrCh
                      \o <<Line("Warning", r.err[1].kind, <<>>)>>
                      \o emit_stderr(no_match_output)
                /\ exitStatus' = Some(error_exit_status(r.err[1]))
           ELSE /\ stdoutCh' = stdoutCh
                /\ stderrCh' = stderrCh \o <<Line("Error", r.err[1].kind, <<>>)>>
                /\ exitStatus' = Some(error_exit_status(r.err[1]))
    /\ pc' = "done"
    /\ UNCHANGED <<args, event, input, config, order, rules, env, decision,
                   result, ctxBuilds, gitStarted, runSpawned, logFile,
                   ioWorld, wd, ex, fs, runSteps>>

Next ==
    \/ ParseArgs
    \/ ParseEvent
    \/ ReadInput
    \/ LoadConfig
    \/ CompileRules
    \/ EvaluateRules
    \/ ExecuteAction
    \/ Main

Spec == Init /\ [][Next]_vars

(* ---------------------------------------------------------------------- *)
(* resolve_working_dir on its own                                          *)
(* ---------------------------------------------------------------------- *)

\* The working_dir templates a rule may carry
WdTemplates ==
    {None, Some(<<>>), Some(<<"${command}">>), Some(<<"/abs">>),
     Some(<<"sub">>), Some(<<"${file_dir}", "/sub">>),
     Some(<<"..", "/other">>), Some(<<"${workspace_root}", "/sub">>)}

\* The contexts from_input may build: file_dir is the parent of file_path,
\* the workspace root is empty when CLAUDE_PROJECT_DIR is unset or empty
\* and the current directory cannot be read
WdContexts ==
    {[command |-> c, file_path |-> f,
      file_dir |-> IF f = <<>> THEN <<>> ELSE path_parent(f),
      tool_name |-> <<"Bash">>, branch |-> <<"main">>, workspace_root |-> w] :
        c \in {<<>>, <<"npm", "install">>},
        f \in {<<>>, <<"/p", "/.env">>, <<"f">>},
        w \in {<<>>, <<"/w">>}}

InitWD ==
    /\ pc = "resolve_working_dir"
    /\ \E t \in WdTemplates, c \in WdContexts :
          wd = Some([working_dir |-> t, context |-> c, resolved |-> None])
    /\ args = NoArgs
    /\ event = None
    /\ input = None
    /\ config = None
    /\ order = <<>>
    /\ rules = None
    /\ env = None
    /\ decision = None
    /\ result = None
    /\ exitStatus = None
    /\ stdoutCh = <<>>
    /\ stderrCh = <<>>
    /\ ctxBuilds = 0
    /\ gitStarted = 0
    /\ runSpawned = 0
    /\ logFile = <<>>
    /\ ioWorld = None
    /\ ex = None
    /\ fs = None
    /\ runSteps = <<>>

\* One call of resolve_working_dir
ResolveWorkingDir ==
    /\ pc = "resolve_working_dir"
    /\ wd' = Some([wd[1] EXCEPT
                     !.resolved = resolve_working_dir(wd[1].working_dir,
                                                      wd[1].context)])
    /\ pc' = "resolved"
    /\ UNCHANGED <<args, event, input, config, order, rules, env, decision,
                   result, exitStatus, stdoutCh, stderrCh, ctxBuilds,
                   gitStarted, runSpawned, logFile, ioWorld, ex, fs,
                   runSteps>>

NextWD == ResolveWorkingDir

SpecWD == InitWD /\ [][NextWD]_vars

(* ---------------------------------------------------------------------- *)
(* Context::expand on its own                                              *)
(* ---------------------------------------------------------------------- *)

\* Message, command and working_dir templates
ExTemplates ==
    {<<>>, <<"plain", "text">>, <<"${command}">>, <<"${branch}">>,
     <<"lint", "${file_path}", "${file_dir}">>,
     <<"${tool_name}", "${workspace_root}">>,
     <<"${branch}", "${command}", "${command}">>}

\* Contexts: the command and the branch name are any text, so they may
\* themselves hold the text of a placeholder
ExContexts ==
    {[command |-> c, file_path |-> f,
      file_dir |-> IF f = <<>> THEN <<>> ELSE path_parent(f),
      tool_name |-> <<"Bash">>, branch |-> b, workspace_root |-> <<"/w">>] :
        c \in {<<>>, <<"npm", "install">>, <<"${branch}">>,
                <<"echo", "${workspace_root}">>},
        f \in {<<>>, <<"/p", "/.env">>},
        b \in {<<>>, <<"main">>, <<"${command}">>}}

InitEx ==
    /\ pc = "expand"
    /\ \E t \in ExTemplates, c \in ExContexts :
          ex = Some([template |-> t, context |-> c, expanded |-> <<>>])
    /\ args = NoArgs
    /\ event = None
    /\ input = None
    /\ config = None
    /\ order = <<>>
    /\ rules = None
    /\ env = None
    /\ decision = None
    /\ result = None
    /\ exitStatus = None
    /\ stdoutCh = <<>>
    /\ stderrCh = <<>>
    /\ ctxBuilds = 0
    /\ gitStarted = 0
    /\ runSpawned = 0
    /\ logFile = <<>>
    /\ ioWorld = None
    /\ wd = None
    /\ fs = None
    /\ runSteps = <<>>

\* One call of Context::expand
Expand ==
    /\ pc = "expand"
    /\ ex' = Some([ex[1] EXCEPT
                     !.expanded = expand(ex[1].context, ex[1].template)])
    /\ pc' = "expanded"
    /\ UNCHANGED <<args, event, input, config, order, rules, env, decision,
                   result, exitStatus, stdoutCh, stderrCh, ctxBuilds,
                   gitStarted, runSpawned, logFile, ioWorld, wd, fs,
                   runSteps>>

NextEx == Expand

SpecEx == InitEx /\ [][NextEx]_vars

(* ---------------------------------------------------------------------- *)
(* The Log arm over several invocations on the same disk                   *)
(* ---------------------------------------------------------------------- *)

\* Largest number of invocations that reach the Log arm
MaxLogCalls == 3

\* The paths the log target "~/log" expands to, with HOME set and unset
LogPaths == {<<"/home", "/log">>, <<"~", "/log">>}

\* The tool calls that are logged
LogInputs ==
    {[tool_name |-> <<"Bash">>,
      tool_input |-> [command |-> Some(c), file_path |-> None]] :
        c \in {<<"npm", "install">>, <<"bun", "install">>}}

\* The environment the logged calls are made in
LogEnv ==
    [CCHOOKED_BRANCH |-> Some(<<"main">>), git |-> "ok",
     git_stdout |-> <<"dev", "\n">>, CLAUDE_PROJECT_DIR |-> None,
     current_dir |-> <<"/cwd">>]

\* The disk before the first invocation: no log target, or a target at
\* the HOME path that already holds a line
InitialDisks ==
    {[files |-> [p \in LogPaths |-> None], dirs |-> {}],
     [files |-> [p \in LogPaths |->
                    IF p = <<"/home", "/log">> THEN Some(<< <<"old", "\n">> >>)
                    ELSE None],
      dirs |-> {<<"/home">>}]}

InitLog ==
    /\ pc = "log"
    /\ \E d \in InitialDisks :
          fs = Some([files |-> d.files, dirs |-> d.dirs, initial |-> d.files,
                     calls |-> 0])
    /\ args = NoArgs
    /\ event = None
    /\ input = None
    /\ config = None
    /\ order = <<>>
    /\ rules = None
    /\ env = None
    /\ decision = None
    /\ result = None
    /\ exitStatus = None
    /\ stdoutCh = <<>>
    /\ stderrCh = <<>>
    /\ ctxBuilds = 0
    /\ gitStarted = 0
    /\ runSpawned = 0
    /\ logFile = <<>>
    /\ ioWorld = None
    /\ wd = None
    /\ ex = None
    /\ runSteps = <<>>

\* One invocation that ends in the Log arm for the rule "audit"
LogInvocation ==
    /\ pc = "log"
    /\ fs[1].calls < MaxLogCalls
    /\ \E w \in LogWorlds, i \in LogInputs :
         LET m == MatchResult(compile_rule("audit", RulePool["audit"]).val[1])
             r == execute_log(m, from_input(i, LogEnv), "PostToolUse", w)
             path == expanded_log_path(m.log_file[1], w.home)
         IN  /\ fs' = Some([fs[1] EXCEPT
                    !.calls = @ + 1,
                    !.dirs = IF w.mkdir_ok THEN @ \cup {path_parent(path)} ELSE @,
                    !.files = IF r.appended = <<>> THEN @
                              ELSE [@ EXCEPT ![path] =
                                       append_line(@, r.appended[1].line)]])
             /\ logFile' = logFile \o r.appended
             /\ stderrCh' = stderrCh \o r.warnings
             /\ ioWorld' = Some(w)
    /\ UNCHANGED <<pc, args, event, input, config, order, rules, env, decision,
                   result, exitStatus, stdoutCh, ctxBuilds, gitStarted,
                   runSpawned, wd, ex, runSteps>>

NextLog == LogInvocation

SpecLog == InitLog /\ [][NextLog]_vars

(* ---------------------------------------------------------------------- *)
(* Invocations whose configuration holds run rules without a command       *)
(* ---------------------------------------------------------------------- *)

\* The configurations loaded: run rules with and without a command and a
\* log rule without a log target
RunConfigs ==
    {c \in SUBSET (BareRunNames \cup {"run_fail", "audit_nofile"}) :
        c # {} /\ Cardinality(c) <= MaxRules}

\* run() after load_config returned one of these configurations
InitRun ==
    /\ pc = "compile_rules"
    /\ \E e \in EventTypes, i \in HookInputs, c \in RunConfigs :
          /\ args = parse_args(<<e>>)
          /\ event = Some(e)
          /\ input = Some(i)
          /\ config = Some(c)
    /\ order = <<>>
    /\ rules = None
    /\ env = None
    /\ decision = None
    /\ result = None
    /\ exitStatus = None
    /\ stdoutCh = <<>>
    /\ stderrCh = <<>>
    /\ ctxBuilds = 0
    /\ gitStarted = 0
    /\ runSpawned = 0
    /\ logFile = <<>>
    /\ ioWorld = None
    /\ wd = None
    /\ ex = None
    /\ fs = None
    /\ runSteps = <<>>

NextRun ==
    \/ CompileRules
    \/ EvaluateRules
    \/ ExecuteAction
    \/ Main

SpecRun == InitRun /\ [][NextRun]_vars

(* ---------------------------------------------------------------------- *)
(* Properties                                                              *)
(* ---------------------------------------------------------------------- *)

\* evaluate_rules has run in this invocation
Evaluated == IsSome(env)

Done == pc = "done"

\* The facts a rule is tested against
FactCommand ==
    IF IsSome(input[1].tool_input.command) THEN input[1].tool_input.command[1]
    ELSE <<>>

FactFilePath ==
    IF IsSome(input[1].tool_input.file_path) THEN input[1].tool_input.file_path[1]
    ELSE <<>>

FactBranch == UnwrapOrEmpty(get_current_branch(env[1]).branch)

\* A category is satisfied: no pattern, or some pattern matches the text
Satisfied(patterns, text) ==
    patterns = <<>> \/ \E i \in 1..Len(patterns) : is_match(patterns[i], text)

\* Some pattern of a non-empty category matches the text
SomePatternMatches(patterns, text) ==
    \E i \in 1..Len(patterns) : is_match(patterns[i], text)

EventAndToolMatch(r) ==
    r.event = event[1] /\ is_match(r.matcher, input[1].tool_name)

\* The rule passes every filter for this invocation
RulePasses(r) ==
    /\ EventAndToolMatch(r)
    /\ Satisfied(r.when.command_patterns, FactCommand)
    /\ Satisfied(r.when.file_path_patterns, FactFilePath)
    /\ Satisfied(r.when.branch_patterns, FactBranch)

PassingIndexes == {i \in 1..Len(rules[1]) : RulePasses(rules[1][i])}

Selected == decision[1].match_result

\* What evaluate_rules answers for a rule on its own
DecidesAlone(r) == IsSome(evaluate_rules(<<r>>, event[1], input[1], env[1]).result)

\* C1: evaluate_rules returns the decision of the earliest rule of the list
\* that passes the event, tool-name and condition filters, never a later
\* one and never one with another event or a failing matcher, and returns
\* no decision exactly when no rule passes.
C1_FirstMatchWins ==
    Evaluated =>
        IF PassingIndexes = {} THEN decision = None
        ELSE /\ IsSome(decision)
             /\ \E i \in PassingIndexes :
                  /\ \A j \in PassingIndexes : i <= j
                  /\ Selected.rule_name = rules[1][i].name
                  /\ Selected.action = rules[1][i].action
                  /\ Selected.message = rules[1][i].message

\* Two rules pass and the list's first one is the decision
C1_Witness ==
    /\ Evaluated
    /\ Cardinality(PassingIndexes) >= 2
    /\ IsSome(decision)
    /\ Selected.rule_name = rules[1][1].name

\* C2: after compile_rules and evaluate_rules the selected rule has the
\* highest priority among the configuration's rules that match the event,
\* tool name and conditions, in whatever order the mapping was enumerated.
C2_HighestPriorityWins ==
    (Evaluated /\ IsSome(decision)) =>
        \A n \in config[1] :
            RulePasses(compile_rule(n, RulePool[n]).val[1])
                => RulePool[n].priority <= RulePool[Selected.rule_name].priority

\* Two matching rules, the lower priority enumerated first
C2_Witness ==
    /\ Evaluated
    /\ IsSome(decision)
    /\ Len(order) = 2
    /\ RulePool[order[1]].priority < RulePool[order[2]].priority
    /\ \A i \in 1..2 : RulePasses(compile_rule(order[i], RulePool[order[i]]).val[1])
    /\ Selected.rule_name = order[2]

\* C3: when no rule matches, an empty rule set included, the invocation
\* exits 0, writes nothing to either channel, starts no subprocess and
\* appends no log line.
C3_NoMatchAllowsSilently ==
    (Done /\ Evaluated /\ decision = None) =>
        /\ exitStatus = Some(0)
        /\ stdoutCh = <<>>
        /\ stderrCh = <<>>
        /\ runSpawned = 0
        /\ logFile = <<>>

\* A non-empty rule set of which no rule matched, at process exit
C3_Witness ==
    /\ Done
    /\ Evaluated
    /\ decision = None
    /\ Len(rules[1]) > 0
    /\ \E i \in 1..Len(rules[1]) : EventAndToolMatch(rules[1][i])

\* C4: a condition category with an empty pattern list is satisfied for
\* every value of its fact, an absent one included: a rule whose event and
\* matcher match is decided by its other categories alone, and a rule with
\* no conditions at all matches, so that some decision is returned.
C4_EmptyCategoryIsSatisfied ==
    Evaluated =>
        \A i \in 1..Len(rules[1]) :
            LET r == rules[1][i]
                cmd == SomePatternMatches(r.when.command_patterns, FactCommand)
                file == SomePatternMatches(r.when.file_path_patterns, FactFilePath)
                branch == SomePatternMatches(r.when.branch_patterns, FactBranch)
                noCmd == r.when.command_patterns = <<>>
                noFile == r.when.file_path_patterns = <<>>
                noBranch == r.when.branch_patterns = <<>>
            IN  EventAndToolMatch(r) =>
                  /\ (noCmd /\ noFile /\ noBranch)
                        => (DecidesAlone(r) /\ IsSome(decision))
                  /\ (noCmd /\ ~noFile /\ ~noBranch)
                        => (DecidesAlone(r) <=> (file /\ branch))
                  /\ (noCmd /\ noFile /\ ~noBranch) => (DecidesAlone(r) <=> branch)
                  /\ (noCmd /\ ~noFile /\ noBranch) => (DecidesAlone(r) <=> file)
                  /\ (~noCmd /\ noFile /\ noBranch) => (DecidesAlone(r) <=> cmd)
                  /\ (~noCmd /\ noFile /\ ~noBranch)
                        => (DecidesAlone(r) <=> (cmd /\ branch))
                  /\ (~noCmd /\ ~noFile /\ noBranch)
                        => (DecidesAlone(r) <=> (cmd /\ file))

\* A rule with empty pattern lists is the decision although the command
\* fact is absent
C4_Witness ==
    /\ Evaluated
    /\ IsSome(decision)
    /\ Selected.rule_name = "no_edit"
    /\ IsNone(input[1].tool_input.command)
    /\ RulePool["no_edit"].when[1].command[1].v = <<>>

\* C5: a category with N >= 1 patterns is satisfied iff at least one
\* pattern matches its fact (OR), an absent command or file path being
\* tested as the empty text; a rule's conditions are satisfied iff the
\* command, file-path and branch categories are each satisfied (AND).
C5_OrWithinAndAcross ==
    Evaluated =>
        \A i \in 1..Len(rules[1]) :
            LET r == rules[1][i]
                sat(patterns, text) ==
                    IF Len(patterns) >= 1 THEN SomePatternMatches(patterns, text)
                    ELSE TRUE
            IN  EventAndToolMatch(r) =>
                  (DecidesAlone(r) <=>
                      /\ sat(r.when.command_patterns, FactCommand)
                      /\ sat(r.when.file_path_patterns, FactFilePath)
                      /\ sat(r.when.branch_patterns, FactBranch))

\* A rule with two command patterns and a file-path pattern is the
\* decision through its second command pattern
C5_Witness ==
    /\ Evaluated
    /\ IsSome(decision)
    /\ Selected.rule_name = "env_npm"
    /\ FactCommand = <<"bun", "install">>
    /\ Len(rules[1][1].when.command_patterns) = 2
    /\ ~is_match(rules[1][1].when.command_patterns[1], FactCommand)

\* C6: a Block decision ends with exit status 2 and nothing on the primary
\* channel; the error channel holds the rule's message expanded through
\* the Context when the rule has one, and nothing otherwise.
C6_BlockOutcome ==
    (Done /\ IsSome(decision) /\ Selected.action = "block") =>
        /\ exitStatus = Some(2)
        /\ stdoutCh = <<>>
        /\ LET message == RulePool[Selected.rule_name].message
           IN  IF IsSome(message)
               THEN stderrCh = <<Line("emit", "", expand(decision[1].context, message[1]))>>
               ELSE stderrCh = <<>>

\* A block rule's message reached the error channel with its placeholder
\* replaced
C6_Witness ==
    /\ Done
    /\ IsSome(decision)
    /\ Selected.rule_name = "no_npm"
    /\ stderrCh = <<Line("emit", "", <<"use", "bun", "Bash">>)>>

\* C7: a Transform decision never ends with exit status 2; with rewrite
\* pattern and replacement present it exits 0, the primary channel holds
\* the payload naming the requested event, "allow" and the command after
\* one substitution, and the error channel holds nothing.
C7_TransformOutcome ==
    (Done /\ IsSome(decision) /\ Selected.action = "transform") =>
        /\ exitStatus # Some(2)
        /\ LET t == RulePool[Selected.rule_name].transform
           IN  (IsSome(t) /\ IsSome(t[1].command)) =>
                 /\ exitStatus = Some(0)
                 /\ stdoutCh =
                      <<[hookSpecificOutput |->
                           [hookEventName |-> event[1],
                            permissionDecision |-> "allow",
                            updatedInput |->
                               [command |-> regex_replace(t[1].command[1][1],
                                                          FactCommand,
                                                          t[1].command[1][2])]]]>>
                 /\ stderrCh = <<>>

\* npm install was rewritten to bun install
C7_Witness ==
    /\ Done
    /\ IsSome(decision)
    /\ Selected.rule_name = "npm_to_bun"
    /\ FactCommand = <<"npm", "install">>
    /\ Len(stdoutCh) = 1
    /\ stdoutCh[1].hookSpecificOutput.updatedInput.command = <<"bun", "install">>

\* run() ended with an error of this kind
FailedWith(kinds) ==
    /\ IsSome(result)
    /\ ~result[1].ok
    /\ result[1].err[1].kind \in kinds

\* C8: every setup failure other than an absent configuration file ends
\* the invocation with the blocking exit status 2, and exit status 1 is
\* never used.
C8_FailClosed ==
    /\ (Done /\ FailedWith(ErrorKinds \ {"ConfigNotFound"}))
          => exitStatus = Some(exit_code(result[1].err[1]))
    /\ exitStatus # Some(1)

C10_MissingConfigAllows ==
    (Done /\ FailedWith({"ConfigNotFound"})) =>
        /\ exitStatus = Some(0)
        /\ stdoutCh = <<>>
        /\ stderrCh = <<Line("Warning", "ConfigNotFound", <<>>)>>
        /\ rules = None
        /\ ~Evaluated
        /\ decision = None
        /\ ctxBuilds = 0
        /\ gitStarted = 0
        /\ runSpawned = 0
        /\ logFile = <<>>

\* The process ended after load_config found no file
C10_Witness ==
    /\ Done
    /\ FailedWith({"ConfigNotFound"})
    /\ IsSome(input)
    /\ config = None

\* The configuration table of rule n asks for action log and names no file
LogWithoutTarget(n) ==
    RulePool[n].action = "log" /\ RulePool[n].log_file = None

\* compile_rules has returned in this invocation
Compiled == IsSome(config) /\ pc # "compile_rules"

\* The first entry, in the order compile_rules met them, that fails to compile
FirstFailing ==
    order[CHOOSE i \in 1..Len(order) :
            /\ ~compile_rule(order[i], RulePool[order[i]]).ok
            /\ \A j \in 1..(i - 1) : compile_rule(order[j], RulePool[order[j]]).ok]

\* C11: a rule with action log and no log target never compiles:
\* compile_rule answers LogFileMissing naming the rule; a configuration
\* holding such a rule yields no rule set, is never evaluated and ends the
\* process with a non-zero exit status and an error line, the error being
\* LogFileMissing for that rule when it is the first rule to fail.
C11_LogWithoutTargetNeverCompiles ==
    /\ \A n \in RuleNames :
         LogWithoutTarget(n) =>
            LET r == compile_rule(n, RulePool[n])
            IN  /\ ~r.ok
                /\ (/\ RulePool[n].event \in EventTypes
                    /\ RulePool[n].matcher.ok
                    /\ IsNone(FirstInvalid(PatternsAfterMatcher(RulePool[n]))))
                     => r.err[1] = Err("LogFileMissing", n, P_Any)
    /\ (Compiled /\ \E n \in config[1] : LogWithoutTarget(n)) =>
         /\ rules = None
         /\ ~Evaluated
         /\ decision = None
         /\ IsSome(result) /\ ~result[1].ok
         /\ LogWithoutTarget(FirstFailing)
               => result[1].err[1] = Err("LogFileMissing", FirstFailing, P_Any)
         /\ Done =>
               /\ exitStatus \notin {None, Some(0)}
               /\ stdoutCh = <<>>
               /\ stderrCh = <<Line("Error", result[1].err[1].kind, <<>>)>>

\* A log rule without log_file, met after a valid rule that would have
\* blocked the call, ended the process with LogFileMissing
C11_Witness ==
    /\ Done
    /\ order = <<"high", "audit_nofile">>
    /\ input[1].tool_name = <<"Bash">>
    /\ event = Some("PreToolUse")
    /\ result[1] = Fail(Err("LogFileMissing", "audit_nofile", P_Any))
    /\ exitStatus = Some(1)
    /\ ~Evaluated

\* Every pattern text of rule n's table: matcher, when patterns, rewrite pattern
ConfigPatterns(n) == <<RulePool[n].matcher>> \o PatternsAfterMatcher(RulePool[n])

\* Rule n has a known event, a known action and only patterns that compile
ValidRule(n) ==
    /\ RulePool[n].event \in {"PreToolUse", "PostToolUse"}
    /\ RulePool[n].action \in {"block", "transform", "run", "log"}
    /\ \A i \in 1..Len(ConfigPatterns(n)) : ConfigPatterns(n)[i].ok

\* Every pattern held by a compiled rule
RulePatterns(r) ==
    <<r.matcher>> \o r.when.command_patterns \o r.when.file_path_patterns
        \o r.when.branch_patterns
        \o (IF IsSome(r.transform) THEN <<r.transform[1].command_pattern[1]>>
            ELSE <<>>)

\* What holds of compilation whichever error is reported: a rule set only
\* for a configuration of valid rules, then holding every rule and only
\* valid patterns; otherwise no rule set, no evaluation and a failed
\* invocation, a RegexError naming its rule and the offending pattern.
AllOrNothing ==
    /\ IsSome(rules) =>
          /\ \A n \in config[1] : ValidRule(n)
          /\ {rules[1][i].name : i \in 1..Len(rules[1])} = config[1]
          /\ Len(rules[1]) = Cardinality(config[1])
          /\ \A i \in 1..Len(rules[1]) :
                \A k \in 1..Len(RulePatterns(rules[1][i])) :
                    RulePatterns(rules[1][i])[k].ok
    /\ (\E n \in config[1] : ~ValidRule(n)) =>
          /\ rules = None
          /\ ~Evaluated
          /\ decision = None
          /\ IsSome(result) /\ ~result[1].ok
          /\ result[1].err[1].kind = "RegexError" =>
                /\ result[1].err[1].rule_name \in config[1]
                /\ ~result[1].err[1].value.ok
                /\ \E k \in 1..Len(ConfigPatterns(result[1].err[1].rule_name)) :
                      ConfigPatterns(result[1].err[1].rule_name)[k]
                          = result[1].err[1].value
          /\ Done => exitStatus \notin {None, Some(0)}

\* C12 as stated: whenever some rule has an unknown event, an unknown
\* action or a pattern that does not compile, the error returned is
\* InvalidEventType, InvalidActionType or RegexError.
C12_ErrorIsOneOfThree ==
    Compiled =>
        /\ AllOrNothing
        /\ (\E n \in config[1] : ~ValidRule(n)) =>
              result[1].err[1].kind \in
                  {"InvalidEventType", "InvalidActionType", "RegexError"}

\* C12: compilation is all-or-nothing, and the error returned is that of
\* the first rule, in the order the mapping yields them, that fails to
\* compile: InvalidEventType, InvalidActionType, RegexError, or
\* LogFileMissing when that first rule is a log rule without log target.
C12_AllOrNothing ==
    Compiled =>
        /\ AllOrNothing
        /\ (\E n \in config[1] : ~ValidRule(n)) =>
              /\ result[1].err[1]
                    = compile_rule(FirstFailing, RulePool[FirstFailing]).err[1]
              /\ result[1].err[1].kind \in
                    {"InvalidEventType", "InvalidActionType", "RegexError",
                     "LogFileMissing"}
              /\ result[1].err[1].kind = "LogFileMissing"
                    <=> LogWithoutTarget(FirstFailing)
              /\ ~LogWithoutTarget(FirstFailing) => ~ValidRule(FirstFailing)

\* A PostToolUse rule with an invalid matcher aborted a PreToolUse
\* invocation that a valid rule, met first, would have blocked
C12_Witness ==
    /\ Done
    /\ event = Some("PreToolUse")
    /\ order = <<"high", "bad_regex">>
    /\ RulePool["bad_regex"].event = "PostToolUse"
    /\ result[1] = Fail(Err("RegexError", "bad_regex", P_invalid))
    /\ rules = None
    /\ exitStatus = Some(1)

\* The invocation ended after a Run decision
RunDecided == Done /\ IsSome(decision) /\ Selected.action = "run"

\* The directory the Run arm resolved for the selected rule
ResolvedDir ==
    resolve_working_dir(RulePool[Selected.rule_name].working_dir,
                        decision[1].context)

\* The resolved working directory is set and not on disk
DirMissing == IsSome(ResolvedDir) /\ ~ioWorld[1].dir_exists

\* The run step failed: directory missing, spawn error or unsuccessful exit
RunStepFailed ==
    /\ IsSome(Selected.run_command)
    /\ \/ DirMissing
       \/ ioWorld[1].child \in {"failure", "spawn_error"}

\* The failure message of the run step
RunFailureText ==
    IF DirMissing
    THEN <<"Working directory does not exist: ">> \o ResolvedDir[1]
    ELSE IF ioWorld[1].child = "failure"
    THEN <<"Command failed: ", "child-stderr">>
    ELSE <<"Failed to run command: ", "spawn-error">>

\* C13: a Run decision ends with exit status 2 exactly when the failure
\* policy is fail and the run step failed, the error channel then holding
\* the failure marker with the captured error text or the spawn error; in
\* every other case it ends with exit status 0 and nothing on either
\* channel.
C13_RunOutcome ==
    RunDecided =>
        /\ exitStatus = Some(2) <=> (Selected.on_error = "Fail" /\ RunStepFailed)
        /\ exitStatus = Some(2) =>
              /\ stdoutCh = <<>>
              /\ stderrCh = <<Line("emit", "", RunFailureText)>>
        /\ exitStatus # Some(2) =>
              /\ exitStatus = Some(0)
              /\ stdoutCh = <<>>
              /\ stderrCh = <<>>

\* A command that exited unsuccessfully under policy fail blocked the call
C13_Witness ==
    /\ RunDecided
    /\ Selected.rule_name = "run_fail"
    /\ ~DirMissing
    /\ ioWorld[1].child = "failure"
    /\ runSpawned = 1
    /\ exitStatus = Some(2)
    /\ stderrCh = <<Line("emit", "", <<"Command failed: ", "child-stderr">>)>>

\* C14: when the resolved working directory of a Run decision is set and
\* not on disk, no subprocess is started and the failure policy decides:
\* ignore ends with exit status 0 and no output, fail with exit status 2
\* and the message "Working directory does not exist".
C14_MissingDirNeverSpawns ==
    (RunDecided /\ IsSome(Selected.run_command) /\ DirMissing) =>
        /\ runSpawned = 0
        /\ stdoutCh = <<>>
        /\ IF Selected.on_error = "Ignore"
           THEN exitStatus = Some(0) /\ stderrCh = <<>>
           ELSE /\ exitStatus = Some(2)
                /\ stderrCh = <<Line("emit", "",
                                 <<"Working directory does not exist: ">>
                                     \o ResolvedDir[1])>>

\* A run rule with policy ignore met a missing working directory while
\* the command would have succeeded
C14_Witness ==
    /\ RunDecided
    /\ Selected.rule_name = "run_ignore"
    /\ ResolvedDir = Some(<<"/cwd", "/", "sub">>)
    /\ ~ioWorld[1].dir_exists
    /\ ioWorld[1].child = "success"
    /\ runSpawned = 0
    /\ exitStatus = Some(0)

\* The text of the template after expansion, empty for an absent template
WdExpanded ==
    IF IsNone(wd[1].working_dir) THEN <<>>
    ELSE expand(wd[1].context, wd[1].working_dir[1])

\* A path text starting with the root separator
StartsWithSlash(p) ==
    p # <<>> /\ p[1] \in {"/", "/abs", "/p", "/w", "/sub", "/other"}

\* The directory the specified algorithm gives for the call in wd
WdExpected ==
    LET file_dir == wd[1].context.file_dir
        root == wd[1].context.workspace_root
    IN  IF WdExpanded = <<>>
        THEN (IF file_dir = <<>> THEN None ELSE Some(file_dir))
        ELSE IF StartsWithSlash(WdExpanded) THEN Some(WdExpanded)
        ELSE IF root # <<>> THEN Some(root \o <<"/">> \o WdExpanded)
        ELSE IF file_dir # <<>> THEN Some(file_dir \o <<"/">> \o WdExpanded)
        ELSE Some(WdExpanded)

\* C15: resolve_working_dir answers what the specified algorithm gives
\* for every template, file_dir and workspace root: file_dir or unset for
\* an absent or empty-expanding template, an absolute expansion verbatim,
\* a relative expansion joined onto the workspace root, else onto
\* file_dir, else bare.
C15_WorkingDirResolution ==
    pc = "resolved" => wd[1].resolved = WdExpected

\* A relative template was joined onto file_dir because the workspace
\* root is empty
C15_Witness ==
    /\ pc = "resolved"
    /\ wd[1].working_dir = Some(<<"sub">>)
    /\ wd[1].context.workspace_root = <<>>
    /\ wd[1].context.file_dir = <<"/p">>
    /\ wd[1].resolved = Some(<<"/p", "/", "sub">>)

\* The invocation ended after a Log decision
LogDecided == Done /\ IsSome(decision) /\ Selected.action = "log"

\* Directory creation, the open or the write failed
LogStepFailed ==
    ~ioWorld[1].mkdir_ok \/ ~ioWorld[1].open_ok \/ ~ioWorld[1].write_ok

\* C16: a Log decision ends with exit status 0 and nothing on the primary
\* channel whether or not directory creation, the open or the write
\* succeeded; a failure shows only as warning lines on the error channel
\* and the invocation still runs to its end.
C16_LogAlwaysAllows ==
    /\ LogDecided =>
          /\ exitStatus = Some(0)
          /\ stdoutCh = <<>>
          /\ result[1] = Ok(no_match_output)
          /\ \A i \in 1..Len(stderrCh) : stderrCh[i].tag = "Warning"
          /\ LogStepFailed <=> stderrCh # <<>>
          /\ LogStepFailed <=> logFile = <<>>
    /\ (pc = "main" /\ IsSome(decision) /\ Selected.action = "log") =>
          result[1] = Ok(no_match_output)

\* The log file could not be opened: a warning, exit status 0, no entry
C16_Witness ==
    /\ LogDecided
    /\ ioWorld[1].mkdir_ok /\ ~ioWorld[1].open_ok
    /\ Len(stderrCh) = 1
    /\ stderrCh[1].kind = "open_log_file"
    /\ logFile = <<>>
    /\ exitStatus = Some(0)

\* The six placeholders
Placeholders ==
    {"${command}", "${file_path}", "${file_dir}", "${tool_name}", "${branch}",
     "${workspace_root}"}

\* The Context field a placeholder stands for
FieldOf(ctx, placeholder) ==
    CASE placeholder = "${command}" -> ctx.command
      [] placeholder = "${file_path}" -> ctx.file_path
      [] placeholder = "${file_dir}" -> ctx.file_dir
      [] placeholder = "${tool_name}" -> ctx.tool_name
      [] placeholder = "${branch}" -> ctx.branch
      [] OTHER -> ctx.workspace_root

\* One pass over the template: each placeholder gives its field's text as
\* it is, any other text stays
RECURSIVE SinglePass(_, _)
SinglePass(ctx, template) ==
    IF template = <<>> THEN <<>>
    ELSE (IF template[1] \in Placeholders THEN FieldOf(ctx, template[1])
          ELSE <<template[1]>>) \o SinglePass(ctx, Tail(template))

\* C17: expansion is literal and single-pass: every placeholder of the
\* template is replaced by its Context field, placeholder text inside a
\* substituted value is emitted as it is, and a template without
\* placeholders comes back unchanged.
C17_ExpandIsSinglePass ==
    pc = "expanded" =>
        ex[1].expanded = SinglePass(ex[1].context, ex[1].template)

\* The table the rule author wrote for the rule the decision names
SelectedConfig == RulePool[Selected.rule_name]

\* The decision names the earliest rule of the list that passes
SelectedIsEarliestPassing ==
    \E i \in PassingIndexes :
        /\ \A j \in PassingIndexes : i <= j
        /\ rules[1][i].name = Selected.rule_name

\* C18: the decision carries the action payloads of the chosen rule as
\* its author configured them (action kind, message, rewrite pattern and
\* replacement, command template, failure policy, log target, log format,
\* working-directory template), the chosen rule being the earliest
\* passing one, so no other rule's values are acted on.
C18_DecisionCarriesPayload ==
    (Evaluated /\ IsSome(decision)) =>
        /\ SelectedIsEarliestPassing
        /\ Selected.action = SelectedConfig.action
        /\ Selected.message = SelectedConfig.message
        /\ IF IsSome(SelectedConfig.transform)
              /\ IsSome(SelectedConfig.transform[1].command)
           THEN /\ Selected.transform[1].command_pattern
                     = Some(SelectedConfig.transform[1].command[1][1])
                /\ Selected.transform[1].command_replacement
                     = Some(SelectedConfig.transform[1].command[1][2])
           ELSE Selected.transform = None
        /\ Selected.run_command = SelectedConfig.command
        /\ Selected.on_error = "Fail" <=> SelectedConfig.on_error = "fail"
        /\ Selected.on_error \in {"Fail", "Ignore"}
        /\ Selected.log_file = SelectedConfig.log_file
        /\ Selected.log_format = "Json" <=> SelectedConfig.log_format = "json"
        /\ Selected.log_format \in {"Json", "Text"}
        /\ working_dir_of(Selected) = SelectedConfig.working_dir

\* A block rule with a message, met ahead of a transform rule of the same
\* priority, was chosen and its message, not the other rule's rewrite,
\* is in the decision
C18_Witness ==
    /\ Evaluated
    /\ IsSome(decision)
    /\ Len(rules[1]) = 2
    /\ rules[1][1].name = "no_npm"
    /\ rules[1][2].name = "npm_to_bun"
    /\ Selected.rule_name = "no_npm"
    /\ Selected.message = Some(<<"use", "bun", "${tool_name}">>)
    /\ Selected.transform = None

\* The rules of the list that carry a branch filter and pass the event,
\* tool-name, command and file-path checks, so that their branch is tested
\* if the scan gets to them
BranchTested ==
    {i \in 1..Len(rules[1]) :
        /\ rules[1][i].when.branch_patterns # <<>>
        /\ EventAndToolMatch(rules[1][i])
        /\ Satisfied(rules[1][i].when.command_patterns, FactCommand)
        /\ Satisfied(rules[1][i].when.file_path_patterns, FactFilePath)}

\* C19: one call of evaluate_rules builds the Context at most once however
\* many scanned rules carry a branch filter, and exactly once when it
\* returns a match, the decision then holding the Context of this input
\* even when the matching rule has no branch filter.
C19_ContextBuiltOnce ==
    Evaluated =>
        /\ ctxBuilds <= 1
        /\ gitStarted <= ctxBuilds
        /\ IsSome(decision) =>
              /\ ctxBuilds = 1
              /\ decision[1].context = from_input(input[1], env[1])
        /\ (IsNone(decision) /\ BranchTested = {}) => ctxBuilds = 0

\* Two rules with a branch filter were scanned, the first failing its
\* branch test, and the Context was built once
C19_Witness ==
    /\ Evaluated
    /\ Cardinality(BranchTested) = 2
    /\ rules[1][1].name = "xf_bare"
    /\ rules[1][2].name = "main_only"
    /\ FactBranch = <<"main">>
    /\ IsSome(decision)
    /\ Selected.rule_name = "main_only"
    /\ ctxBuilds = 1

\* The branch name the resolution rules give in the environment of this
\* invocation: the override, else git's output without the surrounding
\* whitespace, else the empty text
ExpectedBranch ==
    IF env[1].CCHOOKED_BRANCH # None THEN env[1].CCHOOKED_BRANCH[1]
    ELSE IF env[1].git = "ok"
    THEN SelectSeq(env[1].git_stdout, LAMBDA t : t \notin {"\n", " "})
    ELSE <<>>

\* C20: branch resolution never fails or aborts the invocation: the
\* branch is the override whenever it is set, git then not being invoked,
\* else git's trimmed output when git succeeds, else the empty text; a
\* rule with a branch filter is tested against that text.
C20_BranchResolutionIsSoft ==
    Evaluated =>
        /\ pc \in {"execute_action", "main", "done"}
        /\ IsSome(result) => result[1].ok
        /\ env[1].CCHOOKED_BRANCH # None => gitStarted = 0
        /\ env[1].CCHOOKED_BRANCH = None => gitStarted = ctxBuilds
        /\ IsSome(decision) =>
              /\ decision[1].context.branch = ExpectedBranch
              /\ \A i \in 1..Len(rules[1]) :
                    rules[1][i].name = Selected.rule_name =>
                        Satisfied(rules[1][i].when.branch_patterns, ExpectedBranch)
        /\ \A i \in BranchTested :
              (\A j \in 1..(i - 1) : ~RulePasses(rules[1][j])) =>
                  (/\ IsSome(decision)
                   /\ Selected.rule_name = rules[1][i].name)
                    <=> SomePatternMatches(rules[1][i].when.branch_patterns,
                                           ExpectedBranch)

\* With no override and no git binary the branch is the empty text: the
\* rule filtered on the branch was passed over and a later rule decided
C20_Witness ==
    /\ Done
    /\ Evaluated
    /\ IsSome(decision)
    /\ env[1].CCHOOKED_BRANCH = None
    /\ env[1].git = "missing"
    /\ Len(rules[1]) = 2
    /\ rules[1][1].name = "main_only"
    /\ BranchTested = {1}
    /\ Selected.rule_name = "no_npm"
    /\ decision[1].context.branch = <<>>
    /\ gitStarted = 1
    /\ result[1].ok

\* The errors that end an invocation hard: every error but the absent
\* configuration file
HardErrors == ErrorKinds \ {"ConfigNotFound"}

\* C21: an invocation that ends with a hard error (event argument, input,
\* configuration or rule compilation) has evaluated no rule and caused no
\* side effect: no decision, no Context and branch detection, no
\* subprocess, no log line.
C21_HardErrorsPrecedeEvaluation ==
    (IsSome(result) /\ ~result[1].ok /\ result[1].err[1].kind \in HardErrors) =>
        /\ ~Evaluated
        /\ decision = None
        /\ ctxBuilds = 0
        /\ gitStarted = 0
        /\ runSpawned = 0
        /\ logFile = <<>>
        /\ ioWorld = None
        /\ stdoutCh = <<>>

\* A configuration holding a rule that would have run a command and a rule
\* with an unknown action ended at compilation
C21_Witness ==
    /\ Done
    /\ FailedWith({"InvalidActionType"})
    /\ config = Some({"run_fail", "bad_action"})
    /\ event = Some("PreToolUse")
    /\ runSpawned = 0
    /\ ~Evaluated

\* The lines emit wrote to the error channel
EmittedLines == SelectSeq(stderrCh, LAMBDA l : l.tag = "emit")

\* C22: one decision and one action per invocation: the rule list holds
\* each rule once and evaluation names at most one of them; at most one
\* subprocess is started and one log line appended, and only by a Run or
\* Log decision; the outcome is emitted at most once; once the action has
\* run the invocation only has main left.
C22_OneDecisionOneAction ==
    /\ IsSome(rules) =>
          \A i, j \in 1..Len(rules[1]) :
              rules[1][i].name = rules[1][j].name => i = j
    /\ IsSome(decision) =>
          Cardinality({i \in 1..Len(rules[1]) :
                          rules[1][i].name = Selected.rule_name}) = 1
    /\ runSpawned <= 1
    /\ Len(logFile) <= 1
    /\ runSpawned = 1 => (IsSome(decision) /\ Selected.action = "run")
    /\ logFile # <<>> => (IsSome(decision) /\ Selected.action = "log")
    /\ runSpawned + Len(logFile) <= 1
    /\ Len(stdoutCh) <= 1
    /\ Len(EmittedLines) <= 1
    /\ Len(stdoutCh) + Len(EmittedLines) <= 1
    /\ (stdoutCh # <<>> \/ EmittedLines # <<>>) => Done
    /\ (IsSome(decision) /\ pc # "execute_action") =>
          (pc \in {"main", "done"} /\ IsSome(result))
    /\ IsNone(decision) => (runSpawned = 0 /\ logFile = <<>> /\ ioWorld = None)

\* Two rules that both apply to the call were in the list; the first ran
\* its command once and the invocation ended
C22_Witness ==
    /\ Done
    /\ IsSome(decision)
    /\ Len(rules[1]) = 2
    /\ rules[1][1].name = "run_fail"
    /\ rules[1][2].name = "no_npm"
    /\ RulePasses(rules[1][2])
    /\ Selected.rule_name = "run_fail"
    /\ runSpawned = 1
    /\ ioWorld[1].child = "failure"
    /\ Len(EmittedLines) = 1

\* The place of the rule named n in the order the mapping was enumerated
PlaceInOrder(n) == CHOOSE i \in 1..Len(order) : order[i] = n

\* C23: the rule set compile_rules returns holds every rule of the
\* configuration once, each as compile_rule built it, in non-increasing
\* priority, rules of equal priority in the order in which the mapping
\* enumerated them.
C23_StableDescendingPermutation ==
    IsSome(rules) =>
        /\ Len(rules[1]) = Len(order)
        /\ \A k \in 1..Len(order) :
              Cardinality({i \in 1..Len(rules[1]) : rules[1][i].name = order[k]}) = 1
        /\ \A i \in 1..Len(rules[1]) :
              rules[1][i] = compile_rule(rules[1][i].name,
                                         RulePool[rules[1][i].name]).val[1]
        /\ \A i, j \in 1..Len(rules[1]) :
              i < j =>
                /\ rules[1][i].priority >= rules[1][j].priority
                /\ rules[1][i].priority = rules[1][j].priority =>
                      PlaceInOrder(rules[1][i].name) < PlaceInOrder(rules[1][j].name)

\* Two rules of equal priority kept the order of enumeration
C23_Witness ==
    /\ IsSome(rules)
    /\ Len(order) >= 2
    /\ order[1] = "npm_to_bun"
    /\ order[2] = "no_npm"
    /\ \E i \in 1..Len(rules[1]) :
          /\ i < Len(rules[1])
          /\ rules[1][i].name = "npm_to_bun"
          /\ rules[1][i + 1].name = "no_npm"
          /\ rules[1][i].priority = rules[1][i + 1].priority

\* No rule of the rule set carries a branch filter
NoBranchFilter ==
    \A i \in 1..Len(rules[1]) : rules[1][i].when.branch_patterns = <<>>

\* C24 as stated: with no branch-filtered rule in the rule set no
\* version-control process is started, whether or not a rule matches, and
\* one is started only when a branch-filtered rule has passed its event,
\* tool-name, command and file-path checks.
C24_NoDetectionWithoutBranchFilter ==
    Evaluated =>
        /\ NoBranchFilter => gitStarted = 0
        /\ gitStarted > 0 => BranchTested # {}

\* C24: branch detection is lazy up to the match: while no rule has
\* matched, the version-control process is started only for a
\* branch-filtered rule that passed its event, tool-name, command and
\* file-path checks, so an invocation without such a rule and without a
\* match starts none; a match builds the Context, and with it detects
\* the branch, once, even when no rule carries a branch filter; with the
\* override set the process is never started.
C24_LazyBranchDetection ==
    Evaluated =>
        /\ gitStarted <= 1
        /\ env[1].CCHOOKED_BRANCH # None => gitStarted = 0
        /\ (NoBranchFilter /\ IsNone(decision)) =>
              (gitStarted = 0 /\ ctxBuilds = 0)
        /\ (IsNone(decision) /\ env[1].CCHOOKED_BRANCH = None) =>
              (gitStarted = 1 <=> BranchTested # {})
        /\ (IsSome(decision) /\ env[1].CCHOOKED_BRANCH = None) =>
              gitStarted = 1

\* Rules without branch filter, none of them matching, and git was not
\* started although no override is set
C24_Witness ==
    /\ Evaluated
    /\ Len(rules[1]) = 2
    /\ NoBranchFilter
    /\ \E i \in 1..2 : EventAndToolMatch(rules[1][i])
    /\ IsNone(decision)
    /\ env[1].CCHOOKED_BRANCH = None
    /\ env[1].git = "ok"
    /\ gitStarted = 0
    /\ ctxBuilds = 0

\* A transform rule's table without a usable rewrite spec: no transform
\* table, or a table without the pattern and replacement pair
IncompleteRewrite(cfg) ==
    cfg.transform = None \/ cfg.transform[1].command = None

\* The two shapes of an incomplete transform rule
IncompleteTransformRules ==
    {[DefaultRule EXCEPT !.action = "transform"],
     [DefaultRule EXCEPT !.action = "transform",
                         !.transform = Some(TransformConfig(None))]}

\* C25: a Transform decision with an incomplete rewrite spec behaves as
\* no match does: exit status 0, nothing on the primary channel, nothing
\* on the error channel, no rewritten command.
C25_IncompleteTransformAllows ==
    /\ pc = "parse_args" =>
          \A cfg \in IncompleteTransformRules :
              LET r == compile_rule("t", cfg)
              IN  /\ r.ok
                  /\ r.val[1].transform = None
                  /\ \A e \in EventTypes, i \in HookInputs, v \in EnvPool :
                        execute_transform(MatchResult(r.val[1]),
                                          from_input(i, v), e) = no_match_output
    /\ (IsSome(decision) /\ Selected.action = "transform"
            /\ IncompleteRewrite(SelectedConfig)) =>
          /\ Selected.transform = None
          /\ IsSome(result) => result[1] = Ok(no_match_output)
          /\ Done =>
                /\ exitStatus = Some(0)
                /\ stdoutCh = <<>>
                /\ stderrCh = <<>>

\* A transform rule whose table has no pattern and replacement was
\* selected and the invocation ended as an allow without output
C25_Witness ==
    /\ Done
    /\ IsSome(decision)
    /\ Selected.rule_name = "xf_bare"
    /\ Selected.action = "transform"
    /\ Selected.transform = None
    /\ decision[1].context.command = <<>>
    /\ exitStatus = Some(0)
    /\ stdoutCh = <<>>
    /\ stderrCh = <<>>

\* The lines of a file, none for an absent file
LinesOf(file) == IF IsNone(file) THEN <<>> ELSE file[1]

\* The entries the successful invocations wrote to path p, in the order
\* of the invocations, each with its newline
WrittenTo(p) ==
    LET mine == SelectSeq(logFile, LAMBDA a : a.path = p)
    IN  [k \in 1..Len(mine) |-> mine[k].line \o <<"\n">>]

Outcome == result[1].val[1]

\* C27: every Outcome of the Action Executor or of the no-match path has
\* exit status 0 or 2; with exit status 2 it carries no primary-channel
\* text, with exit status 0 no error-channel text.
C27_OutcomeInvariant ==
    (IsSome(result) /\ result[1].ok) =>
        /\ Outcome.exit_code \in {0, 2}
        /\ Outcome.exit_code = 2 => Outcome.stdout = None
        /\ Outcome.exit_code = 0 => Outcome.stderr = None
        /\ Done =>
              /\ exitStatus = Some(Outcome.exit_code)
              /\ exitStatus = Some(2) => stdoutCh = <<>>
              /\ exitStatus = Some(0) => EmittedLines = <<>>

\* The Action Executor returned a blocking Outcome with a message and
\* main has yet to emit it
C27_Witness ==
    /\ pc = "main"
    /\ IsSome(decision)
    /\ result[1].ok
    /\ Outcome.exit_code = 2
    /\ Outcome.stdout = None
    /\ IsSome(Outcome.stderr)

\* on_error and log_format values a rule author may write, the documented
\* ones and others
PolicyStrings == {"fail", "ignore", "Fail", "FAIL", "fial", ""}

FormatStrings == {"json", "text", "JSON", "Json", "yaml", ""}

\* C28: compilation never rejects a rule for its on_error or log_format
\* value: every on_error other than exactly "fail" compiles to the ignore
\* policy, so a failing run command under such a rule never blocks, and
\* every log_format other than exactly "json" compiles to the text format.
C28_LenientPolicyStrings ==
    /\ pc = "parse_args" =>
          /\ \A v \in PolicyStrings :
                LET r == compile_rule("run_fail",
                            [RulePool["run_fail"] EXCEPT !.on_error = v])
                IN  /\ r.ok
                    /\ r.val[1].on_error = IF v = "fail" THEN "Fail" ELSE "Ignore"
          /\ \A v \in FormatStrings :
                LET r == compile_rule("audit",
                            [RulePool["audit"] EXCEPT !.log_format = v])
                IN  /\ r.ok
                    /\ r.val[1].log_format = IF v = "json" THEN "Json" ELSE "Text"
    /\ IsSome(rules) =>
          \A i \in 1..Len(rules[1]) :
              LET cfg == RulePool[rules[1][i].name]
              IN  /\ rules[1][i].on_error
                        = IF cfg.on_error = "fail" THEN "Fail" ELSE "Ignore"
                  /\ rules[1][i].log_format
                        = IF cfg.log_format = "json" THEN "Json" ELSE "Text"
    /\ (RunDecided /\ SelectedConfig.on_error # "fail") =>
          /\ exitStatus = Some(0)
          /\ stdoutCh = <<>>
          /\ stderrCh = <<>>

\* A run rule written with on_error = "Fail" ran a command that exited
\* unsuccessfully and the call was allowed
C28_Witness ==
    /\ RunDecided
    /\ Selected.rule_name = "run_ignore"
    /\ SelectedConfig.on_error = "Fail"
    /\ Selected.on_error = "Ignore"
    /\ ioWorld[1].dir_exists
    /\ ioWorld[1].child = "failure"
    /\ runSpawned = 1
    /\ exitStatus = Some(0)

\* The rules of the loaded configuration have pairwise distinct priorities
DistinctPriorities ==
    \A a, b \in config[1] :
        RulePool[a].priority = RulePool[b].priority => a = b

\* What evaluate_rules decides when the mapping is enumerated in order o,
\* for the event, invocation facts and environment of this invocation
DecisionUnder(o) ==
    evaluate_rules(compile_rules(o).val[1], event[1], input[1], env[1]).result

\* The Outcome execute_action gives for decision d in the world this
\* invocation ran in; no_match_output when nothing was decided
OutcomeOf(d) ==
    IF IsNone(d) THEN no_match_output
    ELSE LET m == d[1].match_result
             c == d[1].context
         IN  CASE m.action = "block" -> execute_block(m, c)
               [] m.action = "transform" -> execute_transform(m, c, event[1])
               [] m.action = "run" -> execute_run(m, c, ioWorld[1]).out
               [] OTHER -> execute_log(m, c, event[1], ioWorld[1]).out

\* C29: for the configuration, event, invocation facts and environment of
\* an invocation, every other order in which the rule mapping may be
\* enumerated compiles exactly when this one did; when the priorities are pairwise
\* distinct every order gives the same rule list, selects the same rule
\* with the same Context and produces the same Outcome; and whatever the
\* priorities, two orders select different rules only when both rules
\* have the same priority and both pass their own tests.
C29_OrderIndependence ==
    (pc = "main" /\ IsSome(config)) =>
        \A o \in Orders(config[1]) \ {order} :
            /\ compile_rules(o).ok = IsSome(rules)
            /\ Evaluated =>
                  LET d == DecisionUnder(o)
                  IN
                  /\ IsSome(d) = IsSome(decision)
                  /\ DistinctPriorities =>
                        /\ compile_rules(o).val[1] = rules[1]
                        /\ d = decision
                        /\ result[1] = Ok(OutcomeOf(d))
                  /\ (IsSome(decision) /\ d # decision) =>
                        LET other == d[1].match_result.rule_name
                        IN  /\ other # Selected.rule_name
                            /\ RulePool[other].priority = SelectedConfig.priority
                            /\ \E i \in 1..Len(rules[1]) :
                                   /\ rules[1][i].name = other
                                   /\ RulePasses(rules[1][i])

\* Two rules of different priority both apply to the call and the mapping
\* yielded the lower one first; the higher one was selected and blocked
C29_Witness ==
    /\ pc = "main"
    /\ Evaluated
    /\ IsSome(decision)
    /\ config = Some({"no_npm", "high"})
    /\ order = <<"no_npm", "high">>
    /\ DistinctPriorities
    /\ \A i \in 1..2 : RulePasses(rules[1][i])
    /\ Selected.rule_name = "high"
    /\ result[1] = Ok(block_output(Some(<<"high">>)))

\* Two rules of equal priority both apply to the call: which one is
\* selected follows the order the mapping was enumerated in
C29_EqualPriorityFollowsOrder ==
    /\ pc = "main"
    /\ Evaluated
    /\ IsSome(decision)
    /\ config = Some({"no_npm", "npm_to_bun"})
    /\ Selected.rule_name = order[1]
    /\ \E o \in Orders(config[1]) :
          DecisionUnder(o)[1].match_result.rule_name # Selected.rule_name

\* The decision is a Run whose rule has no command template
BareRunDecided ==
    /\ pc \in {"main", "done"}
    /\ IsSome(decision)
    /\ Selected.action = "run"
    /\ IsNone(Selected.run_command)

\* C30: a rule with action run and no command compiles, while a log rule
\* without a log target does not; a Run decision for such a rule takes
\* none of the Run arm's steps (no expansion, no working-directory
\* resolution, no existence check, no subprocess) and the invocation exits
\* 0 with nothing written, whatever the failure policy, the working_dir
\* template and the state of the disk.
C30_BareRunDoesNothing ==
    /\ pc = "compile_rules" =>
          \A n \in config[1] :
              /\ (RulePool[n].action = "run" /\ IsNone(RulePool[n].command)) =>
                    /\ compile_rule(n, RulePool[n]).ok
                    /\ IsNone(compile_rule(n, RulePool[n]).val[1].run_command)
              /\ (RulePool[n].action = "log" /\ IsNone(RulePool[n].log_file)) =>
                    /\ ~compile_rule(n, RulePool[n]).ok
                    /\ compile_rule(n, RulePool[n]).err[1].kind = "LogFileMissing"
    /\ (pc # "compile_rules" /\ config[1] \subseteq BareRunNames) =>
          /\ IsSome(rules)
          /\ Len(rules[1]) = Cardinality(config[1])
    /\ BareRunDecided =>
          /\ runSteps = <<>>
          /\ runSpawned = 0
          /\ IsSome(ioWorld)
          /\ result = Some(Ok(no_match_output))
          /\ Done =>
                /\ exitStatus = Some(0)
                /\ stdoutCh = <<>>
                /\ stderrCh = <<>>

\* A run rule with the fail policy, a working_dir and no command was
\* selected while the directory did not exist: nothing was done and the
\* call was allowed
C30_Witness ==
    /\ Done
    /\ BareRunDecided
    /\ Selected.rule_name = "run_bare"
    /\ Selected.on_error = "Fail"
    /\ working_dir_of(Selected) = Some(<<"sub">>)
    /\ ~ioWorld[1].dir_exists
    /\ ioWorld[1].child = "failure"
    /\ runSteps = <<>>
    /\ exitStatus = Some(0)

====
